---- MODULE Spec2Model ----
(***************************************************************************)
(* Sign-up boards of SnedBot (src/extensions/events.py).                   *)
(*                                                                         *)
(* Published event boards with their category buttons.  Every click on a  *)
(* button runs SignUpCategoryButton.callback as its own asyncio task; the  *)
(* delete command, the expiry listener, events_init and the setup wizard   *)
(* are tasks too.  The tasks interleave at every await.  The model has one *)
(* action per stretch of a coroutine between two awaits.                   *)
(***************************************************************************)
EXTENDS Integers, Sequences, FiniteSets, TLC

(***************************************************************************)
(* Bounds of the model.                                                    *)
(***************************************************************************)
\* users of the guild are 1..NumUsers
NumUsers == 2
\* clicks (runs of the callback) handled in one behaviour
MaxClicks == 3
\* runs of the callback that are under way at the same time
MaxInFlight == 2
\* largest capacity an operator gives a category in the model
MaxCap == 1
\* runs of events_init in one behaviour
MaxInits == 2
\* events published before the restart
NumEvents == 2
\* clicks handled after the restart
MaxLifeClicks == 2
\* events that are deleted or expire in one behaviour
MaxEnding == 1
\* events the wizard publishes in one behaviour of a guild of its own
MaxSetups == 1

\* the members of a category whose roster no longer fits into a message
Crowd == 81

\* the most members of a category in the events with short rosters
MaxFill == 6

\* names[: -(len(names)-5) or None] and len(names) == 5
TrimLimit == 5
\* the "-" shown for a category without members
Dash == 0

Users == 1 .. NumUsers
Handlers == 1 .. MaxClicks
\* the one role an event can be restricted to
Roles == {"role7"}
EntryIds == {"e1"}
\* the keys of the categories mapping, in dict order
CatOrder == <<"Red", "Blue">>
CatNames == {CatOrder[k] : k \in 1 .. Len(CatOrder)}

\* the guilds the bot is in
Guilds == {"g1", "g2"}
\* len(records["entry_id"]) >= 10
EventLimit == 10
\* len(categories) < 9
CategoryLimit == 9
\* entry ids (str(uuid.uuid4())), in the order the model hands them out;
\* the ids that fall to the events of guild g2 start with f
IdOrder == <<"e1", "e2", "e3", "e4", "e5", "e6", "e7", "e8", "e9", "e10",
             "e11", "f1">>
EventIds == {IdOrder[k] : k \in 1 .. Len(IdOrder)}
\* the guild_id column of the row with this entry id
GuildOf(entry_id) == IF entry_id \in {"f1"} THEN "g2" ELSE "g1"
\* the category names an operator types, in the order the model lists
\* the keys of a categories mapping; the last has more than 25 characters
NameOrder == CatOrder \o <<"Green", "Grey", "Gold", "Pink", "Cyan", "Lime",
                           "Teal", "Navy", "The Ones Who Come Very Late">>
Names == {NameOrder[k] : k \in 1 .. Len(NameOrder)}

\* an optional value (None or a value) is the empty set or a singleton:
\* member_cap is None, or an int; the wizard stores int(message.content)
\* whenever that is not above 100 and not negative, 0 included
None == {}
CapChoices == {None} \cup {{n} : n \in 0 .. MaxCap}
\* permitted_roles is None or the list of selected role ids
RoleChoices == {None, {"role7"}}

VARIABLES
    store,        \* events table: entry_id -> row, for the rows there are
    cache,        \* bot.caching's copy of the guild's events rows
    message,      \* the published message of each event: its embed
    departed,     \* users that guild.get_member no longer resolves
    pc,           \* where each run of callback stands
    interaction,  \* the discord.Interaction each run was started with
    categories,   \* local `categories` of each run
    embed,        \* local `embed` of each run
    state,        \* local `state` of each run
    reply,        \* what the run answered to the clicking user
    shown,        \* the published messages that carry their buttons
    views,        \* the bot's persistent views: message id -> controls
    timers,       \* the entry ids a pending "event" timer carries as notes
    expiry,       \* where the run of on_event_timer_complete stands, per id
    listener,     \* locals `record` and `response_str` of that run, per id
    deletion,     \* where the run of event_delete stands, per id
    startup,      \* where events_init stands, and its local `records`
    wizard        \* where event_setup stands in each guild, and its locals

\* the state of the callback runs
clickVars == <<departed, pc, interaction, categories, embed, state, reply>>

\* the state of everything else the bot runs
lifeVars ==
    <<shown, views, timers, expiry, listener, deletion, startup, wizard>>

vars == <<store, cache, message, departed, pc, interaction, categories,
          embed, state, reply, shown, views, timers, expiry, listener,
          deletion, startup, wizard>>

(***************************************************************************)
(* Python helpers.                                                         *)
(***************************************************************************)
\* x in list
In(x, list) == \E i \in 1 .. Len(list) : list[i] = x

\* list.remove(x): drops the first occurrence
Remove(list, x) ==
    LET i == CHOOSE k \in 1 .. Len(list) :
                 list[k] = x /\ \A j \in 1 .. (k - 1) : list[j] # x
    IN  SubSeq(list, 1, i - 1) \o SubSeq(list, i + 1, Len(list))

\* list[:stop] of Python, stop an int (negative counts from the end)
SliceTo(list, stop) ==
    LET n == Len(list)
        hi == IF stop < 0 THEN (IF n + stop < 0 THEN 0 ELSE n + stop)
              ELSE (IF stop > n THEN n ELSE stop)
    IN  SubSeq(list, 1, hi)

\* truth value of an optional int: None and 0 are false
Truthy(opt) == \E n \in opt : n # 0

(***************************************************************************)
(* Rows, embeds and the pure parts of SignUpCategoryButton.                *)
(***************************************************************************)
\* categories JSON of a row written by the wizard: no members yet
NewCategories(caps) ==
    [c \in CatNames |-> [member_cap |-> caps[c], members |-> << >>]]

\* the row of the events table the wizard inserts
NewRow(caps, roles) ==
    [permitted_roles |-> roles, categories |-> NewCategories(caps)]

\* the keys of a categories mapping, in dict order
Keys(cats) == SelectSeq(NameOrder, LAMBDA name : name \in DOMAIN cats)

\* a mapping without the key, and a mapping with the key set
Without(map, key) == [k \in DOMAIN map \ {key} |-> map[k]]

With(map, key, value) ==
    [k \in DOMAIN map \cup {key} |-> IF k = key THEN value ELSE map[k]]

\* a mapping without keys
Empty == [k \in {} |-> 0]

\* member_cap if member_cap else "∞"
ShownCap(member_cap) == IF Truthy(member_cap) THEN member_cap ELSE None

\* one embed field: the name carries (len/cap), the value carries the names
NewField(member_cap) ==
    [count |-> 0, cap |-> ShownCap(member_cap), names |-> <<Dash>>,
     more |-> FALSE]

\* the embed of the message the wizard publishes
NewEmbed(caps) == [c \in CatNames |-> NewField(caps[c])]

\* names[: -(len(names)-5) or None] if names else ["-"]
TrimNames(names) ==
    IF Len(names) = 0 THEN <<Dash>>
    ELSE IF -(Len(names) - TrimLimit) = 0 THEN names
    ELSE SliceTo(names, -(Len(names) - TrimLimit))

\* guild.get_member(member_id).display_name works for every listed member
Resolves(member_ids, gone) ==
    \A i \in 1 .. Len(member_ids) : member_ids[i] \notin gone

\* refresh_embed_field, when every member resolves
RefreshEmbedField(member_ids, emb, field_name, member_cap) ==
    [emb EXCEPT ![field_name] =
        [count |-> Len(member_ids),
         cap   |-> ShownCap(member_cap),
         names |-> TrimNames(member_ids),
         more  |-> Len(TrimNames(member_ids)) = TrimLimit]]

\* IsFull with < in place of <=
IsFullOffByOne(data) ==
    /\ Truthy(data.member_cap)
    /\ \E n \in data.member_cap : n < Len(data.members)

\* data["member_cap"] and data["member_cap"] <= len(data["members"])
IsFull(data) ==
    /\ Truthy(data.member_cap)
    /\ \E n \in data.member_cap : n <= Len(data.members)

\* NotPermitted without its `not`
NotPermittedInverted(permitted_roles, user_roles) ==
    /\ permitted_roles # None
    /\ \E role_id \in permitted_roles : role_id \in user_roles

\* record["permitted_roles"][0] and not any(role_id in user roles ...)
NotPermitted(permitted_roles, user_roles) ==
    /\ permitted_roles # None
    /\ ~ \E role_id \in permitted_roles : role_id \in user_roles

\* the first category other than category_name that lists the user, if any
OtherCategory(cats, category_name, user) ==
    LET keys == Keys(cats)
        at == {k \in 1 .. Len(keys) :
                  /\ keys[k] # category_name
                  /\ In(user, cats[keys[k]].members)}
    IN  IF at = {} THEN {}
        ELSE {keys[CHOOSE k \in at : \A j \in at : k <= j]}

\* what the callback has after its synchronous part:
\* ret is "ok" (goes on to the UPDATE), "full", "forbidden" (returned with
\* an ephemeral message) or "raise" (AttributeError in refresh_embed_field)
Result(ret, st, cats, emb) ==
    [ret |-> ret, state |-> st, categories |-> cats, embed |-> emb]

\* Removing that empties the list
RemovingAll(cats, emb, category_name, user, gone) ==
    LET left == [cats EXCEPT ![category_name].members = << >>]
    IN  IF Resolves(left[category_name].members, gone)
        THEN Result("ok", "removed", left,
                    RefreshEmbedField(left[category_name].members, emb,
                        category_name, left[category_name].member_cap))
        ELSE Result("raise", "removed", left, emb)

\* the branch "if removing"
Removing(cats, emb, category_name, user, gone) ==
    LET left == [cats EXCEPT ![category_name].members = Remove(@, user)]
    IN  IF Resolves(left[category_name].members, gone)
        THEN Result("ok", "removed", left,
                    RefreshEmbedField(left[category_name].members, emb,
                        category_name, left[category_name].member_cap))
        ELSE Result("raise", "removed", left, emb)

\* LeaveOther with the loop left out
LeaveOtherSkipped(cats, emb, category_name, user, gone) ==
    Result("ok", "added", cats, emb)

\* the loop "check if user is already in a team", after the append
LeaveOther(cats, emb, category_name, user, gone) ==
    LET other == OtherCategory(cats, category_name, user)
    IN  IF other = {} THEN Result("ok", "added", cats, emb)
        ELSE LET d == CHOOSE d \in other : TRUE
                 left == [cats EXCEPT ![d].members = Remove(@, user)]
             IN  IF Resolves(left[d].members, gone)
                 THEN Result("ok", "moved", left,
                          RefreshEmbedField(left[d].members, emb, d,
                              left[d].member_cap))
                 ELSE Result("raise", "moved", left, emb)

\* Adding with the role check ahead of the capacity check
AddingRoleFirst(rec, emb, category_name, user, user_roles, gone) ==
    LET cats == rec.categories
        data == cats[category_name]
    IN  IF NotPermitted(rec.permitted_roles, user_roles)
        THEN Result("forbidden", "added", cats, emb)
        ELSE IF IsFull(data)
        THEN Result("full", "added", cats, emb)
        ELSE LET joined == [cats EXCEPT ![category_name].members =
                                Append(@, user)]
             IN  IF Resolves(joined[category_name].members, gone)
                 THEN LeaveOther(joined,
                          RefreshEmbedField(joined[category_name].members,
                              emb, category_name,
                              joined[category_name].member_cap),
                          category_name, user, gone)
                 ELSE Result("raise", "added", joined, emb)

\* the branch "if adding"
Adding(rec, emb, category_name, user, user_roles, gone) ==
    LET cats == rec.categories
        data == cats[category_name]
    IN  IF IsFull(data)
        THEN Result("full", "added", cats, emb)
        ELSE IF NotPermitted(rec.permitted_roles, user_roles)
        THEN Result("forbidden", "added", cats, emb)
        ELSE LET joined == [cats EXCEPT ![category_name].members =
                                Append(@, user)]
             IN  IF Resolves(joined[category_name].members, gone)
                 THEN LeaveOther(joined,
                          RefreshEmbedField(joined[category_name].members,
                              emb, category_name,
                              joined[category_name].member_cap),
                          category_name, user, gone)
                 ELSE Result("raise", "added", joined, emb)

\* Decide without the test whether the user is listed
DecideAlwaysAdds(rec, inter, gone) ==
    Adding(rec, inter.embed, inter.category_name, inter.user,
           inter.roles, gone)

\* lines 52-84 of callback: from the row read to the decision
Decide(rec, inter, gone) ==
    IF In(inter.user, rec.categories[inter.category_name].members)
    THEN Removing(rec.categories, inter.embed, inter.category_name,
                  inter.user, gone)
    ELSE Adding(rec, inter.embed, inter.category_name, inter.user,
                inter.roles, gone)

(***************************************************************************)
(* bot.caching (not part of the sources): get answers from the cached     *)
(* rows, refresh reloads the guild's rows from the table.                  *)
(***************************************************************************)
\* what get answers when no row matches: nothing to subscript
NoRecord == [permitted_roles |-> None, categories |-> Empty]

CachingGet(cached, entry_id) ==
    IF entry_id \in DOMAIN cached THEN cached[entry_id] ELSE NoRecord

\* the entry ids of the rows of a guild
RowsOf(table, guild_id) == {e \in DOMAIN table : GuildOf(e) = guild_id}

CachingGetGuild(cached, guild_id) == RowsOf(cached, guild_id)

CachingRefresh(cached, table, guild_id) ==
    [e \in (DOMAIN cached \ RowsOf(cached, guild_id))
            \cup RowsOf(table, guild_id) |->
        IF GuildOf(e) = guild_id THEN table[e] ELSE cached[e]]

(***************************************************************************)
(* Initial state: the wizard has published the event, nobody has joined.   *)
(***************************************************************************)
\* values of locals that hold nothing yet, or nothing any more
NoCategories == NewCategories([c \in CatNames |-> None])

NoEmbed == NewEmbed([c \in CatNames |-> None])

NoInteraction ==
    [entry_id |-> "e1", category_name |-> "Red", user |-> 0, roles |-> {},
     embed |-> NoEmbed]

\* Buttons that stops after the first category
ButtonsFirstOnly(entry_id, cats) ==
    [k \in 1 .. (IF Keys(cats) = << >> THEN 0 ELSE 1) |->
        [entry_id |-> entry_id, category_name |-> Keys(cats)[k]]]

\* the buttons of an event message, one SignUpCategoryButton per category
Buttons(entry_id, cats) ==
    [k \in 1 .. Len(Keys(cats)) |->
        [entry_id |-> entry_id, category_name |-> Keys(cats)[k]]]

\* no session of the wizard in a guild, and nothing answered in it yet
NoSession ==
    [pc |-> "idle", categories |-> Empty, entered |-> 0, role_options |-> 0,
     skipping |-> FALSE, data |-> None, roles |-> None, entry_id |-> "",
     notice |-> "none"]

\* the listener of an event holds no record and has put no roster together
NoListener == [record |-> NoRecord, response_str |-> Empty]

\* events_init has run and holds no records
Ready == [pc |-> "ready", records |-> Empty, runs |-> 1]

\* the state around the callback runs when the events of `table` stand
\* published, their timers pending, and no command or listener runs
Standing(table) ==
    /\ shown = DOMAIN table
    /\ timers = DOMAIN table
    /\ expiry = [e \in EventIds |-> "idle"]
    /\ listener = [e \in EventIds |-> NoListener]
    /\ deletion = [e \in EventIds |-> "idle"]
    /\ wizard = [g \in Guilds |-> NoSession]

\* nobody has clicked
NoClicks ==
    /\ departed = {}
    /\ pc = [h \in Handlers |-> "idle"]
    /\ interaction = [h \in Handlers |-> NoInteraction]
    /\ categories = [h \in Handlers |-> NoCategories]
    /\ embed = [h \in Handlers |-> NoEmbed]
    /\ state = [h \in Handlers |-> "added"]
    /\ reply = [h \in Handlers |-> "none"]

Init ==
    \E caps \in [CatNames -> CapChoices], roles \in RoleChoices :
        /\ store = [e \in EntryIds |-> NewRow(caps, roles)]
        /\ cache = store
        /\ message = [e \in EntryIds |-> NewEmbed(caps)]
        /\ views = [e \in EntryIds |-> Buttons(e, store[e].categories)]
        /\ startup = Ready
        /\ Standing(store)
        /\ NoClicks

(***************************************************************************)
(* Actions.                                                                *)
(***************************************************************************)
\* the runs of callback that have started and not returned
InFlight == {h \in Handlers : pc[h] \notin {"idle", "done"}}

\* AddView that keeps the buttons registered before
AddViewKeeping(registry, msg_id, buttons) ==
    With(registry, msg_id,
         IF msg_id \in DOMAIN registry THEN registry[msg_id] \o buttons
         ELSE buttons)

\* bot.add_view(view, message_id=msg_id): the view takes the place of the
\* one registered for the message before
AddView(registry, msg_id, buttons) == With(registry, msg_id, buttons)

\* Registered that finds a button for every message
RegisteredAnyway(registry, msg_id, entry_id, category_name) ==
    msg_id \in DOMAIN registry \/ msg_id = entry_id

\* a registered view of the message holds the button with this custom_id
\* (f"{entry_id}:{category_name}")
Registered(registry, msg_id, entry_id, category_name) ==
    /\ msg_id \in DOMAIN registry
    /\ \E k \in 1 .. Len(registry[msg_id]) :
           registry[msg_id][k] =
               [entry_id |-> entry_id, category_name |-> category_name]

\* a member presses a category button of the message of event e: discord
\* delivers the interaction, with the message as it is shown, and the
\* callback of the registered button is scheduled; without a registered
\* button the interaction fails and nothing runs
Click(h, e, c, u, r) ==
    /\ pc[h] = "idle"
    /\ IF h = 1 THEN TRUE ELSE pc[h - 1] # "idle"
    /\ Cardinality(InFlight) < MaxInFlight
    /\ u \notin departed
    /\ e \in DOMAIN message
    /\ e \in shown
    /\ c \in DOMAIN message[e]
    /\ IF Registered(views, e, e, c)
       THEN /\ interaction' = [interaction EXCEPT ![h] =
                   [entry_id |-> e, category_name |-> c, user |-> u,
                    roles |-> r, embed |-> message[e]]]
            /\ pc' = [pc EXCEPT ![h] = "get"]
            /\ UNCHANGED reply
       ELSE /\ interaction' = [interaction EXCEPT ![h] =
                   [entry_id |-> e, category_name |-> c, user |-> u,
                    roles |-> NoInteraction.roles, embed |-> NoEmbed]]
            /\ pc' = [pc EXCEPT ![h] = "done"]
            /\ reply' = [reply EXCEPT ![h] = "failed"]
    /\ UNCHANGED <<store, cache, message, departed, categories, embed,
                   state>>
    /\ UNCHANGED lifeVars

\* the row caching.get returns to run h (local `record`)
Record(h) == CachingGet(cache, interaction[h].entry_id)

\* lines 51-84: caching.get, then the decision without any await;
\* full and forbidden return here, an AttributeError ends the run here.
\* The locals of a run that has returned, and the parts of its interaction
\* that are read no more, are reset to the values they had before the run.
\* When get finds no row, record is None and record["categories"] at
\* line 52 raises TypeError, which nothing catches.
CallbackDecide(h) ==
    /\ pc[h] = "get"
    /\ IF Record(h) = NoRecord
       THEN /\ reply' = [reply EXCEPT ![h] = "raise"]
            /\ pc' = [pc EXCEPT ![h] = "done"]
            /\ UNCHANGED <<categories, embed, state>>
       ELSE LET res == Decide(Record(h), interaction[h], departed)
            IN  IF res.ret = "ok"
                THEN /\ categories' =
                            [categories EXCEPT ![h] = res.categories]
                     /\ embed' = [embed EXCEPT ![h] = res.embed]
                     /\ state' = [state EXCEPT ![h] = res.state]
                     /\ pc' = [pc EXCEPT ![h] = "update"]
                     /\ UNCHANGED reply
                ELSE /\ reply' = [reply EXCEPT ![h] = res.ret]
                     /\ pc' = [pc EXCEPT ![h] = "done"]
                     /\ UNCHANGED <<categories, embed, state>>
    /\ interaction' = [interaction EXCEPT ![h].embed = NoEmbed,
                                          ![h].roles = NoInteraction.roles]
    /\ UNCHANGED <<store, cache, message, departed>>
    /\ UNCHANGED lifeVars

\* UpdateCategories that clears the permitted roles of the row as well
UpdateCategoriesAndRoles(table, entry_id, cats) ==
    IF entry_id \in DOMAIN table
    THEN [table EXCEPT ![entry_id].categories = cats,
                       ![entry_id].permitted_roles = None]
    ELSE table

\* UPDATE events SET categories = $1 WHERE guild_id = $2 AND entry_id = $3
\* changes the row with that entry id, when there is one
UpdateCategories(table, entry_id, cats) ==
    IF entry_id \in DOMAIN table
    THEN [table EXCEPT ![entry_id].categories = cats]
    ELSE table

\* lines 86-92: UPDATE events SET categories = json.dumps(categories)
CallbackUpdate(h) ==
    /\ pc[h] = "update"
    /\ store' = UpdateCategories(store, interaction[h].entry_id,
                                 categories[h])
    /\ pc' = [pc EXCEPT ![h] = "refresh"]
    /\ UNCHANGED <<cache, message, departed, interaction, categories,
                   embed, state, reply>>
    /\ UNCHANGED lifeVars

\* lines 86-92: pool.acquire or con.execute raises (the connection is
\* lost, the statement is refused); nothing catches it and the run ends
\* without having written
CallbackUpdateFails(h) ==
    /\ pc[h] = "update"
    /\ reply' = [reply EXCEPT ![h] = "raise"]
    /\ pc' = [pc EXCEPT ![h] = "done"]
    /\ categories' = [categories EXCEPT ![h] = NoCategories]
    /\ embed' = [embed EXCEPT ![h] = NoEmbed]
    /\ state' = [state EXCEPT ![h] = "added"]
    /\ UNCHANGED <<store, cache, message, departed, interaction>>
    /\ UNCHANGED lifeVars

\* line 93: caching.refresh(table="events", guild_id=guild.id)
CallbackRefresh(h) ==
    /\ pc[h] = "refresh"
    /\ cache' = CachingRefresh(cache, store,
                               GuildOf(interaction[h].entry_id))
    /\ pc' = [pc EXCEPT ![h] = "edit"]
    /\ UNCHANGED <<store, message, departed, interaction, categories,
                   embed, state, reply>>
    /\ UNCHANGED lifeVars

\* line 95: interaction.response.edit_message(embed=embed); discord
\* answers NotFound when the message is gone, and nothing catches it
CallbackEdit(h) ==
    /\ pc[h] = "edit"
    /\ IF interaction[h].entry_id \in DOMAIN message
       THEN /\ message' = [message EXCEPT ![interaction[h].entry_id] =
                               embed[h]]
            /\ pc' = [pc EXCEPT ![h] = "send"]
            /\ UNCHANGED <<categories, embed, state, reply>>
       ELSE /\ reply' = [reply EXCEPT ![h] = "raise"]
            /\ pc' = [pc EXCEPT ![h] = "done"]
            /\ categories' = [categories EXCEPT ![h] = NoCategories]
            /\ embed' = [embed EXCEPT ![h] = NoEmbed]
            /\ state' = [state EXCEPT ![h] = "added"]
            /\ UNCHANGED message
    /\ UNCHANGED <<store, cache, departed, interaction>>
    /\ UNCHANGED lifeVars

\* line 95: edit_message raises discord.HTTPException for a message that
\* is there (the interaction has expired, discord is not reachable);
\* nothing catches it, the message stays as it was
CallbackEditFails(h) ==
    /\ pc[h] = "edit"
    /\ interaction[h].entry_id \in DOMAIN message
    /\ reply' = [reply EXCEPT ![h] = "raise"]
    /\ pc' = [pc EXCEPT ![h] = "done"]
    /\ categories' = [categories EXCEPT ![h] = NoCategories]
    /\ embed' = [embed EXCEPT ![h] = NoEmbed]
    /\ state' = [state EXCEPT ![h] = "added"]
    /\ UNCHANGED <<store, cache, message, departed, interaction>>
    /\ UNCHANGED lifeVars

\* line 96: webhook.send(state_msgs[state], ephemeral=True), and return
CallbackSend(h) ==
    /\ pc[h] = "send"
    /\ reply' = [reply EXCEPT ![h] = state[h]]
    /\ pc' = [pc EXCEPT ![h] = "done"]
    /\ categories' = [categories EXCEPT ![h] = NoCategories]
    /\ embed' = [embed EXCEPT ![h] = NoEmbed]
    /\ state' = [state EXCEPT ![h] = "added"]
    /\ UNCHANGED <<store, cache, message, departed, interaction>>
    /\ UNCHANGED lifeVars

\* the users listed in some category of some stored event
Enrolled ==
    {u \in Users : \E e \in EntryIds, c \in CatNames :
                       In(u, store[e].categories[c].members)}

\* the users whose click is being handled
Clicking == {interaction[h].user : h \in InFlight}

\* a user leaves the guild: get_member returns None for them from now on
\* (the leaving of a user who is listed nowhere and has no click under way
\* is seen by no run of the callback)
Leave(u) ==
    /\ u \notin departed
    /\ u \in Enrolled \cup Clicking
    /\ departed' = departed \cup {u}
    /\ UNCHANGED <<store, cache, message, pc, interaction, categories,
                   embed, state, reply>>
    /\ UNCHANGED lifeVars

Next ==
    \/ \E h \in Handlers, e \in EntryIds, c \in CatNames, u \in Users,
          r \in SUBSET Roles : Click(h, e, c, u, r)
    \/ \E h \in Handlers : CallbackDecide(h)
    \/ \E h \in Handlers : CallbackUpdate(h)
    \/ \E h \in Handlers : CallbackRefresh(h)
    \/ \E h \in Handlers : CallbackEdit(h)
    \/ \E h \in Handlers : CallbackSend(h)
    \/ \E u \in Users : Leave(u)

Spec == Init /\ [][Next]_vars

(***************************************************************************)
(* The expiry listener, on_event_timer_complete.                           *)
(***************************************************************************)
\* DeleteRow without the entry id: DELETE FROM events WHERE guild_id = $1
DeleteRowsOfGuild(table, entry_id) ==
    [e \in {x \in DOMAIN table : GuildOf(x) # GuildOf(entry_id)} |->
        table[e]]

\* DELETE FROM events WHERE guild_id = $1 AND entry_id = $2
DeleteRow(table, entry_id) == Without(table, entry_id)

\* lines 151-152: the members that get_member resolves, in their order
Mentions(member_ids, gone) ==
    LET resolves(member_id) == member_id \notin gone
    IN  SelectSeq(member_ids, resolves)

\* lines 149-153: the roster, for every category the mentions of its
\* members
ResponseStr(record, gone) ==
    [c \in DOMAIN record.categories |->
        Mentions(record.categories[c].members, gone)]

\* line 159: the most characters of a message
MessageLimit == 2000

\* line 153: the characters of member.mention, "<@" + an id of 18 digits
\* + ">"
MentionLen == 21

\* line 253: the most characters of a title
TitleLimit == 100

\* the characters of the names of NameOrder
NameLens == <<3, 4, 5, 4, 4, 4, 4, 4, 4, 4, 27>>

NameLen(name) ==
    NameLens[CHOOSE k \in 1 .. Len(NameOrder) : NameOrder[k] = name]

\* line 153: the characters of ', '.join of k mentions
JoinedLen(k) == IF k = 0 THEN 0 ELSE k * MentionLen + (k - 1) * 2

\* line 153: the characters a category adds to response_str,
\* " \n**" + category + ": " + the mentions + "**"
RECURSIVE LinesLen(_, _)
LinesLen(response_str, names) ==
    IF names = << >> THEN 0
    ELSE 8 + NameLen(Head(names))
           + JoinedLen(Len(response_str[Head(names)]))
           + LinesLen(response_str, Tail(names))

\* lines 149-153: len(response_str); the title of every event of the
\* model has TitleLimit characters, and "Event **'" + title +
\* "'** is starting now!\n" has 30 more
RosterLen(response_str) ==
    30 + TitleLimit + LinesLen(response_str, Keys(response_str))

\* the timer of event e is due: the Timers cog dispatches event_timer_complete
\* and the listener starts (line 139)
TimerFire(e) ==
    /\ e \in timers
    /\ expiry[e] = "idle"
    /\ timers' = timers \ {e}
    /\ expiry' = [expiry EXCEPT ![e] = "get"]
    /\ UNCHANGED <<store, cache, message, shown, views, listener, deletion,
                   startup, wizard>>
    /\ UNCHANGED clickVars

\* lines 140-144: caching.get, then record["msg_id"] for fetch_message;
\* with no row record is None and the subscript raises TypeError, which
\* the except of line 145 does not catch
ExpiryGet(e) ==
    /\ expiry[e] = "get"
    /\ expiry' = [expiry EXCEPT ![e] =
           IF CachingGet(cache, e) = NoRecord THEN "raised" ELSE "fetch"]
    /\ listener' = [listener EXCEPT ![e].record = CachingGet(cache, e)]
    /\ UNCHANGED <<store, cache, message, shown, views, timers, deletion,
                   startup, wizard>>
    /\ UNCHANGED clickVars

\* lines 143-146: fetch_message; discord.NotFound ends the listener
ExpiryFetch(e) ==
    /\ expiry[e] = "fetch"
    /\ expiry' = [expiry EXCEPT ![e] =
           IF e \in DOMAIN message THEN "strip" ELSE "returned"]
    /\ listener' = [listener EXCEPT ![e] =
           IF e \in DOMAIN message THEN @ ELSE NoListener]
    /\ UNCHANGED <<store, cache, message, shown, views, timers, deletion,
                   startup, wizard>>
    /\ UNCHANGED clickVars

\* line 148: message.edit(view=None), outside of the try: NotFound for a
\* message deleted since the fetch ends the listener with the error
ExpiryStrip(e) ==
    /\ expiry[e] = "strip"
    /\ IF e \in DOMAIN message
       THEN /\ shown' = shown \ {e}
            /\ expiry' = [expiry EXCEPT ![e] = "delete"]
            /\ UNCHANGED listener
       ELSE /\ expiry' = [expiry EXCEPT ![e] = "raised"]
            /\ listener' = [listener EXCEPT ![e] = NoListener]
            /\ UNCHANGED shown
    /\ UNCHANGED <<store, cache, message, views, timers, deletion, startup,
                   wizard>>
    /\ UNCHANGED clickVars

\* ExpiryDelete that keeps the row of a roster over the limit
ExpiryDeleteIfFits(e) ==
    /\ expiry[e] = "delete"
    /\ store' = IF RosterLen(ResponseStr(listener[e].record, departed))
                     > MessageLimit
                THEN store ELSE DeleteRow(store, e)
    /\ expiry' = [expiry EXCEPT ![e] = "refresh"]
    /\ listener' = [listener EXCEPT ![e] =
           [record |-> NoRecord,
            response_str |-> ResponseStr(@.record, departed)]]
    /\ UNCHANGED <<cache, message, shown, views, timers, deletion, startup,
                   wizard>>
    /\ UNCHANGED clickVars

\* lines 149-156: response_str is put together from the record read at
\* line 140, then DELETE FROM events
ExpiryDelete(e) ==
    /\ expiry[e] = "delete"
    /\ store' = DeleteRow(store, e)
    /\ expiry' = [expiry EXCEPT ![e] = "refresh"]
    /\ listener' = [listener EXCEPT ![e] =
           [record |-> NoRecord,
            response_str |-> ResponseStr(@.record, departed)]]
    /\ UNCHANGED <<cache, message, shown, views, timers, deletion, startup,
                   wizard>>
    /\ UNCHANGED clickVars

\* line 157: caching.refresh
ExpiryRefresh(e) ==
    /\ expiry[e] = "refresh"
    /\ cache' = CachingRefresh(cache, store, GuildOf(e))
    /\ expiry' = [expiry EXCEPT ![e] = "send"]
    /\ UNCHANGED listener
    /\ UNCHANGED <<store, message, shown, views, timers, deletion, startup,
                   wizard>>
    /\ UNCHANGED clickVars

\* TooLarge with twice the limit
TooLargeLate(response_str) == RosterLen(response_str) > 2 * MessageLimit

\* line 159: len(response_str) > 2000
TooLarge(response_str) == RosterLen(response_str) > MessageLimit

\* lines 159-165: ValueError for a roster over the limit; else
\* channel.send(response_str), whose discord.Forbidden is passed over,
\* and return.  A roster that was sent is kept in response_str as what
\* the channel has received.
ExpirySend(e, forbidden) ==
    /\ expiry[e] = "send"
    /\ IF TooLarge(listener[e].response_str)
       THEN /\ expiry' = [expiry EXCEPT ![e] = "toolarge"]
            /\ listener' = [listener EXCEPT ![e] = NoListener]
       ELSE IF forbidden
       THEN /\ expiry' = [expiry EXCEPT ![e] = "refused"]
            /\ listener' = [listener EXCEPT ![e] = NoListener]
       ELSE /\ expiry' = [expiry EXCEPT ![e] = "done"]
            /\ UNCHANGED listener
    /\ UNCHANGED <<store, cache, message, shown, views, timers, deletion,
                   startup, wizard>>
    /\ UNCHANGED clickVars

(***************************************************************************)
(* The delete command, event_delete.                                       *)
(***************************************************************************)
\* a moderator of the guild sends `event delete <id>` (line 186)
DeleteInvoke(e) ==
    /\ deletion[e] = "idle"
    /\ deletion' = [deletion EXCEPT ![e] = "get"]
    /\ UNCHANGED <<store, cache, message, shown, views, timers, expiry,
                   listener, startup, wizard>>
    /\ UNCHANGED clickVars

\* lines 187-188 and 202-204: caching.get; without a row the command
\* answers "Not found"
DeleteGet(e) ==
    /\ deletion[e] = "get"
    /\ deletion' = [deletion EXCEPT ![e] =
           IF CachingGet(cache, e) = NoRecord THEN "notfound" ELSE "message"]
    /\ UNCHANGED <<store, cache, message, shown, views, timers, expiry,
                   listener, startup, wizard>>
    /\ UNCHANGED clickVars

\* lines 189-195: fetch_message and message.delete(), NotFound passed over
DeleteMessage(e) ==
    /\ deletion[e] = "message"
    /\ message' = Without(message, e)
    /\ shown' = shown \ {e}
    /\ deletion' = [deletion EXCEPT ![e] = "delete"]
    /\ UNCHANGED <<store, cache, views, timers, expiry, listener, startup,
                   wizard>>
    /\ UNCHANGED clickVars

\* lines 197-198: DELETE FROM events
DeleteDelete(e) ==
    /\ deletion[e] = "delete"
    /\ store' = DeleteRow(store, e)
    /\ deletion' = [deletion EXCEPT ![e] = "refresh"]
    /\ UNCHANGED <<cache, message, shown, views, timers, expiry, listener,
                   startup, wizard>>
    /\ UNCHANGED clickVars

\* DeleteRefresh without the refresh of line 199
DeleteRefreshSkipped(e) ==
    /\ deletion[e] = "refresh"
    /\ deletion' = [deletion EXCEPT ![e] = "done"]
    /\ UNCHANGED <<store, cache, message, shown, views, timers, expiry,
                   listener, startup, wizard>>
    /\ UNCHANGED clickVars

\* lines 199-201: caching.refresh, then "Event deleted" is sent
DeleteRefresh(e) ==
    /\ deletion[e] = "refresh"
    /\ cache' = CachingRefresh(cache, store, GuildOf(e))
    /\ deletion' = [deletion EXCEPT ![e] = "done"]
    /\ UNCHANGED <<store, message, shown, views, timers, expiry, listener,
                   startup, wizard>>
    /\ UNCHANGED clickVars

\* somebody deletes the published message by hand: fetch_message answers
\* discord.NotFound from now on (lines 145 and 194)
RemoveMessage(e) ==
    /\ e \in DOMAIN message
    /\ message' = Without(message, e)
    /\ shown' = shown \ {e}
    /\ UNCHANGED <<store, cache, views, timers, expiry, listener, deletion,
                   startup, wizard>>
    /\ UNCHANGED clickVars

(***************************************************************************)
(* events_init, started by Events.__init__.                                *)
(***************************************************************************)
\* PersistentViews whose line 127 runs for every button
PersistentViewsLastOnly(records) ==
    [msg_id \in DOMAIN records |->
        LET buttons == Buttons(msg_id, records[msg_id].categories)
        IN  SubSeq(buttons, Len(buttons), Len(buttons))]

\* lines 123-129: add_to_persistent_views, the buttons of every record
\* under its msg_id
PersistentViews(records) ==
    [msg_id \in DOMAIN records |-> Buttons(msg_id, records[msg_id].categories)]

\* lines 131-132: bot.add_view for every msg_id of add_to_persistent_views
AddViews(registry, add_to_persistent_views) ==
    [msg_id \in DOMAIN registry \cup DOMAIN add_to_persistent_views |->
        IF msg_id \in DOMAIN add_to_persistent_views
        THEN AddView(registry, msg_id,
                     add_to_persistent_views[msg_id])[msg_id]
        ELSE registry[msg_id]]

\* lines 116-119: wait_until_ready, then SELECT * FROM events
EventsInitFetch ==
    /\ startup.pc = "fetch"
    /\ startup' = [startup EXCEPT !.pc = "register", !.records = store]
    /\ UNCHANGED <<store, cache, message, shown, views, timers, expiry,
                   listener, deletion, wizard>>
    /\ UNCHANGED clickVars

\* lines 121-134: the connection is released, then the views are built
\* and registered without another await
EventsInitRegister ==
    /\ startup.pc = "register"
    /\ views' = AddViews(views, PersistentViews(startup.records))
    /\ startup' = [startup EXCEPT !.pc = "ready", !.records = Empty]
    /\ UNCHANGED <<store, cache, message, shown, timers, expiry, listener,
                   deletion, wizard>>
    /\ UNCHANGED clickVars

\* the extension is loaded again (jishaku, admin_commands): setup adds a
\* new Events cog, whose __init__ creates the events_init task once more
\* (line 105); the bot keeps the views it has
Reload ==
    /\ startup.pc = "ready"
    /\ startup.runs < MaxInits
    /\ startup' = [startup EXCEPT !.pc = "fetch", !.runs = @ + 1]
    /\ UNCHANGED <<store, cache, message, shown, views, timers, expiry,
                   listener, deletion, wizard>>
    /\ UNCHANGED clickVars

(***************************************************************************)
(* The setup wizard, event_setup.                                          *)
(***************************************************************************)
\* line 262: the most characters of a description
DescriptionLimit == 2500

\* line 341: the largest capacity
CapLimit == 100

\* what an operator answers for the channel: a text or news channel, a
\* channel of another type, or a name no channel has
Channels == {"text", "news", "voice", "unknown"}

\* what converttime of the Timers cog does with the answer for the expiry
Expiries == {"parsed", "ValueError"}

\* lines 236-245: the channel is found and is a text or news channel
ChannelTaken(channel) == channel \in {"text", "news"}

\* line 253: len(message.content) <= 100
TitleTaken(title) == title <= TitleLimit

\* line 262: len(message.content) <= 2500
DescriptionTaken(description) == description <= DescriptionLimit

\* lines 290-294: converttime returns, ValueError cancels the setup
ExpiryTaken(event_expiry) == event_expiry = "parsed"

\* what an operator answers for the capacity: "skip", the digits of an
\* integer, or other text
Skip == [kind |-> "skip", int |-> 0]
Digits(n) == [kind |-> "int", int |-> n]
Words == [kind |-> "text", int |-> 0]

\* line 340: int(message.content) raises ValueError
IntRaises(content) == content.kind = "text"

\* line 340: int(message.content) if it is not "skip", else None
MemberCap(content) == IF content.kind = "skip" THEN None ELSE {content.int}

\* a category name of more than 25 characters
LongName == NameOrder[Len(NameOrder)]

\* len(message.content) <= 25
Short(name) == name # LongName

\* line 305: the name is taken
NameAccepted(name, cats) == Short(name) \/ name \notin DOMAIN cats

\* lines 341-342: no ValueError is raised for the capacity
CapAccepted(member_cap) ==
    ~ (Truthy(member_cap) /\ \E n \in member_cap : n <= 0 \/ n > CapLimit)

\* lines 339-345: the answer for the capacity is taken
ContentAccepted(content) ==
    ~ IntRaises(content) /\ CapAccepted(MemberCap(content))

\* MoreAllowed with <= in place of <
MoreAllowedOneMore(cats) == Cardinality(DOMAIN cats) <= CategoryLimit

\* line 354: len(categories) < 9, the operator is asked for another one
MoreAllowed(cats) == Cardinality(DOMAIN cats) < CategoryLimit

\* TooMany with > in place of >=
TooManyLate(records) == Cardinality(records) > EventLimit

\* line 217: records and len(records["entry_id"]) >= 10
TooMany(records) == records # {} /\ Cardinality(records) >= EventLimit

\* a bucket for all guilds together
BucketOfAll(guild_id) == "all"

\* line 210: per=commands.BucketType.guild, the guild is the bucket
Bucket(guild_id) == guild_id

\* line 210: max_concurrency(1, ..., wait=False) finds the bucket taken
Busy(guild_id) ==
    \E g \in Guilds : Bucket(g) = Bucket(guild_id) /\ wizard[g].pc # "idle"

\* lines 423-429: the embed of the event message, a field per category
EventEmbed(cats) == [c \in DOMAIN cats |-> NewField(cats[c].member_cap)]

\* the entry ids something of the bot or of discord still refers to
Used ==
    DOMAIN store \cup DOMAIN cache \cup DOMAIN message \cup DOMAIN views
        \cup timers \cup {e \in EventIds : expiry[e] # "idle"}
        \cup {e \in EventIds : deletion[e] # "idle"}
        \cup {wizard[g].entry_id : g \in Guilds}

\* the positions in IdOrder of the ids a new event of the guild can get
FreshIds(guild_id) ==
    {k \in 1 .. Len(IdOrder) :
        GuildOf(IdOrder[k]) = guild_id /\ IdOrder[k] \notin Used}

\* line 416: str(uuid.uuid4()), an id nothing refers to
FreshId(guild_id) ==
    IdOrder[CHOOSE k \in FreshIds(guild_id) :
                \A j \in FreshIds(guild_id) : k <= j]

\* Ended that keeps the place of a session an exception has ended
EndedKeepsSlot(session, notice) ==
    [NoSession EXCEPT !.notice = notice,
                      !.pc = IF notice = "error" THEN "ended" ELSE "idle"]

\* the session ends: its locals are gone, its last message stays
Ended(session, notice) == [NoSession EXCEPT !.notice = notice]

\* `event create` is sent in a guild: max_concurrency lets the command
\* run, or raises MaxConcurrencyReached, which on_command_error answers
\* (main.py lines 326-329)
WizardInvoke(g) ==
    /\ IF Busy(g)
       THEN wizard' = [wizard EXCEPT ![g].notice = "busy"]
       ELSE wizard' = [wizard EXCEPT ![g] = [NoSession EXCEPT !.pc = "check"]]
    /\ UNCHANGED <<store, cache, message, shown, views, timers, expiry,
                   listener, deletion, startup>>
    /\ UNCHANGED clickVars

\* lines 215-219: caching.get, "Too many events" for ten rows
WizardCheck(g) ==
    /\ wizard[g].pc = "check"
    /\ wizard' = [wizard EXCEPT ![g] =
           IF TooMany(CachingGetGuild(cache, g))
           THEN Ended(@, "toomany")
           ELSE [@ EXCEPT !.pc = "basics"]]
    /\ UNCHANGED <<store, cache, message, shown, views, timers, expiry,
                   listener, deletion, startup>>
    /\ UNCHANGED clickVars

\* lines 226-296: channel, title, description and expiry are asked for
\* in turn; the first answer that is not taken cancels the setup
WizardBasics(g, channel, title, description, event_expiry) ==
    /\ wizard[g].pc = "basics"
    /\ wizard' = [wizard EXCEPT ![g] =
           IF /\ ChannelTaken(channel)
              /\ TitleTaken(title)
              /\ DescriptionTaken(description)
              /\ ExpiryTaken(event_expiry)
           THEN [@ EXCEPT !.pc = "category"]
           ELSE Ended(@, "cancelled")]
    /\ UNCHANGED <<store, cache, message, shown, views, timers, expiry,
                   listener, deletion, startup>>
    /\ UNCHANGED clickVars

\* lines 299-366, add_category up to its question for another category:
\* name, emoji, style and capacity are asked for and categories[name] set;
\* entered counts the calls of add_category that have set an entry
WizardCategory(g, name, content) ==
    /\ wizard[g].pc = "category"
    /\ wizard' = [wizard EXCEPT ![g] =
           IF NameAccepted(name, @.categories) /\ ContentAccepted(content)
           THEN LET cats == With(@.categories, name,
                                 [member_cap |-> MemberCap(content),
                                  members |-> << >>])
                IN  [@ EXCEPT !.categories = cats,
                              !.entered = @ + 1,
                              !.pc = IF MoreAllowed(cats) THEN "another"
                                     ELSE "roles"]
           ELSE Ended(@, "cancelled")]
    /\ UNCHANGED <<store, cache, message, shown, views, timers, expiry,
                   listener, deletion, startup>>
    /\ UNCHANGED clickVars

\* lines 355-362: ctx.confirm answers True, False or, timed out, None;
\* for None asyncio.exception is looked up and AttributeError is raised
WizardAnother(g, create_another) ==
    /\ wizard[g].pc = "another"
    /\ wizard' = [wizard EXCEPT ![g] =
           IF create_another = "yes" THEN [@ EXCEPT !.pc = "category"]
           ELSE IF create_another = "no" THEN [@ EXCEPT !.pc = "roles"]
           ELSE Ended(@, "error")]
    /\ UNCHANGED <<store, cache, message, shown, views, timers, expiry,
                   listener, deletion, startup>>
    /\ UNCHANGED clickVars

\* line 403: the most options the role select is shown with
RoleLimit == 25

\* line 385: the most roles an operator can select
SelectLimit == 5

\* MaxValues without the limit of 5
MaxValuesAll(role_count) == role_count

\* line 385: max_values = 5 if len(role_options) > 5 else len(role_options)
MaxValues(role_count) ==
    IF role_count > SelectLimit THEN SelectLimit ELSE role_count

\* lines 371-374: the roles of the guild but @everyone are the options,
\* option k with the value of role id k
RoleOptions(role_count) == {Digits(k) : k \in 1 .. role_count}

\* line 408: [int(value) for value in view.data["values"]]
IntValues(data) == {value.int : value \in UNION data}

\* lines 370-406: role_options is put together; with at most 25 options
\* the view is shown (skipping False, no data yet) and waited for, with
\* more the step is left out and event_permitted_roles stays None
WizardRoleOptions(g, role_count) ==
    /\ wizard[g].pc = "roles"
    /\ wizard' = [wizard EXCEPT ![g].role_options = role_count,
                                ![g].skipping = FALSE,
                                ![g].data = None,
                                ![g].roles = None,
                                ![g].pc = IF role_count <= RoleLimit
                                          THEN "select" ELSE "publish"]
    /\ UNCHANGED <<store, cache, message, shown, views, timers, expiry,
                   listener, deletion, startup>>
    /\ UNCHANGED clickVars

\* lines 386-388: the operator selects between min_values and max_values
\* of the options; the callback keeps interaction.data
WizardSelect(g, values) ==
    /\ wizard[g].pc = "select"
    /\ values \subseteq RoleOptions(wizard[g].role_options)
    /\ Cardinality(values) >= 1
    /\ Cardinality(values) <= MaxValues(wizard[g].role_options)
    /\ wizard' = [wizard EXCEPT ![g].data = {values}]
    /\ UNCHANGED <<store, cache, message, shown, views, timers, expiry,
                   listener, deletion, startup>>
    /\ UNCHANGED clickVars

\* lines 390-394 and 409-410: Skip sets skipping, drops the data and
\* stops the view; event_permitted_roles is None
WizardSkip(g) ==
    /\ wizard[g].pc = "select"
    /\ wizard' = [wizard EXCEPT ![g].skipping = TRUE,
                                ![g].data = None,
                                ![g].roles = None,
                                ![g].pc = "publish"]
    /\ UNCHANGED <<store, cache, message, shown, views, timers, expiry,
                   listener, deletion, startup>>
    /\ UNCHANGED clickVars

\* lines 396-401 and 407-408: Confirm stops the view when there is data,
\* and event_permitted_roles is the selection; without data the view
\* stays as it is
WizardConfirm(g) ==
    /\ wizard[g].pc = "select"
    /\ wizard' = [wizard EXCEPT ![g] =
           IF @.data # None
           THEN [@ EXCEPT !.roles = IntValues(wizard[g].data),
                          !.pc = "publish"]
           ELSE @]
    /\ UNCHANGED <<store, cache, message, shown, views, timers, expiry,
                   listener, deletion, startup>>
    /\ UNCHANGED clickVars

\* lines 406-408: the view times out and view.wait returns.  With a
\* selection the setup goes on with it; without one RolesView has no
\* attribute data (__init__ sets skipping only), line 407 raises
\* AttributeError and line 413 is not reached
WizardRolesTimeout(g) ==
    /\ wizard[g].pc = "select"
    /\ wizard' = [wizard EXCEPT ![g] =
           IF @.data # None
           THEN [@ EXCEPT !.roles = IntValues(wizard[g].data),
                          !.pc = "publish"]
           ELSE Ended(@, "error")]
    /\ UNCHANGED <<store, cache, message, shown, views, timers, expiry,
                   listener, deletion, startup>>
    /\ UNCHANGED clickVars

\* a setup that has published its message can time out as well
WaitingLate == {"basics", "category", "insert"}

\* where the setup waits for an answer and raises TimeoutError: the
\* wait_for and select_or_ask of lines 234-290 and of add_category
Waiting == {"basics", "category"}

\* a wait_for or a view of the setup times out: TimeoutError is raised,
\* on_command_error answers it (main.py lines 283-286)
WizardTimeout(g) ==
    /\ wizard[g].pc \in Waiting
    /\ wizard' = [wizard EXCEPT ![g] = Ended(@, "timeout")]
    /\ UNCHANGED <<store, cache, message, shown, views, timers, expiry,
                   listener, deletion, startup>>
    /\ UNCHANGED clickVars

\* lines 416-433: the entry id is drawn, embed and buttons are built and
\* the message is sent with its view
WizardPublish(g) ==
    /\ wizard[g].pc = "publish"
    /\ FreshIds(g) # {}
    /\ LET entry_id == FreshId(g)
       IN  /\ message' = With(message, entry_id,
                               EventEmbed(wizard[g].categories))
           /\ shown' = shown \cup {entry_id}
           /\ views' = AddView(views, entry_id,
                               Buttons(entry_id, wizard[g].categories))
           /\ wizard' = [wizard EXCEPT ![g].entry_id = entry_id,
                                       ![g].pc = "insert"]
    /\ UNCHANGED <<store, cache, timers, expiry, listener, deletion,
                   startup>>
    /\ UNCHANGED clickVars

\* lines 436-440: INSERT INTO events
WizardInsert(g) ==
    /\ wizard[g].pc = "insert"
    /\ store' = With(store, wizard[g].entry_id,
                     [permitted_roles |-> wizard[g].roles,
                      categories |-> wizard[g].categories])
    /\ wizard' = [wizard EXCEPT ![g].pc = "refresh"]
    /\ UNCHANGED <<cache, message, shown, views, timers, expiry, listener,
                   deletion, startup>>
    /\ UNCHANGED clickVars

\* line 441: caching.refresh
WizardRefresh(g) ==
    /\ wizard[g].pc = "refresh"
    /\ cache' = CachingRefresh(cache, store, g)
    /\ wizard' = [wizard EXCEPT ![g].pc = "timer"]
    /\ UNCHANGED <<store, message, shown, views, timers, expiry, listener,
                   deletion, startup>>
    /\ UNCHANGED clickVars

\* line 442: create_timer(event_expiry, event="event", notes=entry_id)
WizardTimer(g) ==
    /\ wizard[g].pc = "timer"
    /\ timers' = timers \cup {wizard[g].entry_id}
    /\ wizard' = [wizard EXCEPT ![g].pc = "finish"]
    /\ UNCHANGED <<store, cache, message, shown, views, expiry, listener,
                   deletion, startup>>
    /\ UNCHANGED clickVars

\* lines 445-446: "Setup completed", and the command returns
WizardFinish(g) ==
    /\ wizard[g].pc = "finish"
    /\ wizard' = [wizard EXCEPT ![g] = Ended(@, "created")]
    /\ UNCHANGED <<store, cache, message, shown, views, timers, expiry,
                   listener, deletion, startup>>
    /\ UNCHANGED clickVars

(***************************************************************************)
(* The bot after a restart: the events published before it are in the     *)
(* table, their messages carry their buttons, no view is registered yet    *)
(* and events_init has been started.  Members click, moderators delete,    *)
(* timers fire, the extension is loaded again.                             *)
(***************************************************************************)
\* the events published before the restart
LifeIds == {IdOrder[k] : k \in 1 .. NumEvents}

\* the events that a moderator deletes or whose timer comes due
Ending == {IdOrder[k] : k \in 1 .. MaxEnding}

LifeInit ==
    /\ store = [e \in LifeIds |->
                   NewRow([c \in CatNames |-> None], None)]
    /\ cache = store
    /\ message = [e \in LifeIds |-> NewEmbed([c \in CatNames |-> None])]
    /\ views = Empty
    /\ startup = [pc |-> "fetch", records |-> Empty, runs |-> 1]
    /\ Standing(store)
    /\ NoClicks

LifeNext ==
    \/ \E h \in 1 .. MaxLifeClicks, e \in LifeIds, c \in CatNames,
          u \in 1 .. 1 : Click(h, e, c, u, {})
    \/ \E h \in Handlers : CallbackDecide(h)
    \/ \E h \in Handlers : CallbackUpdate(h)
    \/ \E h \in Handlers : CallbackRefresh(h)
    \/ \E h \in Handlers : CallbackEdit(h)
    \/ \E h \in Handlers : CallbackSend(h)
    \/ \E e \in Ending : TimerFire(e)
    \/ \E e \in Ending : ExpiryGet(e)
    \/ \E e \in Ending : ExpiryFetch(e)
    \/ \E e \in Ending : ExpiryStrip(e)
    \/ \E e \in Ending : ExpiryDelete(e)
    \/ \E e \in Ending : ExpiryRefresh(e)
    \/ \E e \in Ending : ExpirySend(e, FALSE)
    \/ \E e \in Ending : DeleteInvoke(e)
    \/ \E e \in Ending : DeleteGet(e)
    \/ \E e \in Ending : DeleteMessage(e)
    \/ \E e \in Ending : DeleteDelete(e)
    \/ \E e \in Ending : DeleteRefresh(e)
    \/ \E e \in Ending : RemoveMessage(e)
    \/ EventsInitFetch
    \/ EventsInitRegister
    \/ Reload

LifeSpec == LifeInit /\ [][LifeNext]_vars

(***************************************************************************)
(* One guild without events, in which operators run the wizard.            *)
(***************************************************************************)
WizardInit ==
    /\ store = Empty
    /\ cache = Empty
    /\ message = Empty
    /\ views = Empty
    /\ startup = Ready
    /\ Standing(store)
    /\ NoClicks

\* the names an operator types next: one of the categories there are, the
\* first short name not among them, or the long name
NamesToType(cats) ==
    LET unused == {k \in 1 .. Len(NameOrder) - 1 :
                      NameOrder[k] \notin DOMAIN cats}
    IN  DOMAIN cats \cup {LongName}
            \cup {NameOrder[k] : k \in {j \in unused :
                                            \A i \in unused : j <= i}}

\* the lengths of the titles and descriptions an operator types
Titles == {TitleLimit, TitleLimit + 1}
Descriptions == {DescriptionLimit, DescriptionLimit + 1}

\* the capacities an operator types
Contents ==
    {Skip, Words, Digits(-1), Digits(0), Digits(MaxCap), Digits(CapLimit),
     Digits(CapLimit + 1)}

\* every capacity is typed for the first name, for the names after it an
\* operator types "skip" or other text
ContentsToType(name) == IF name = NameOrder[1] THEN Contents ELSE {Skip, Words}

\* the events the wizard has published
Published == DOMAIN views

\* the most categories an operator enters in one setup
MaxEntered == 10

\* the most roles an operator picks at once
MaxPicked == 6

\* the numbers of roles, besides @everyone, of the guild of a setup
RoleCounts == {1, SelectLimit + 1, RoleLimit, RoleLimit + 1}

\* the selections an operator makes: the first k options, for every k the
\* select lets through
Picks(role_count) ==
    LET most == IF MaxValues(role_count) <= MaxPicked
                THEN MaxValues(role_count) ELSE MaxPicked
    IN  {RoleOptions(k) : k \in 1 .. most}

WizardNext ==
    \/ /\ Cardinality(Published) < MaxSetups
       /\ WizardInvoke("g1")
    \/ WizardCheck("g1")
    \/ \E channel \in Channels, title \in Titles,
          description \in Descriptions, event_expiry \in Expiries :
              WizardBasics("g1", channel, title, description, event_expiry)
    \/ /\ wizard["g1"].entered < MaxEntered
       /\ \E name \in NamesToType(wizard["g1"].categories) :
             \E content \in ContentsToType(name) :
                 WizardCategory("g1", name, content)
    \/ \E create_another \in {"yes", "no", "none"} :
          WizardAnother("g1", create_another)
    \/ \E role_count \in RoleCounts : WizardRoleOptions("g1", role_count)
    \/ \E values \in Picks(wizard["g1"].role_options) :
          WizardSelect("g1", values)
    \/ WizardSkip("g1")
    \/ WizardConfirm("g1")
    \/ WizardRolesTimeout("g1")
    \/ WizardTimeout("g1")
    \/ WizardPublish("g1")
    \/ WizardInsert("g1")
    \/ WizardRefresh("g1")
    \/ WizardTimer("g1")
    \/ WizardFinish("g1")

WizardSpec == WizardInit /\ [][WizardNext]_vars

(***************************************************************************)
(* Two guilds, the first with up to ten events: operators run the wizard   *)
(* in both, a moderator deletes an event, a timer comes due.               *)
(***************************************************************************)
\* the row and the message of an event with one category, nobody in it
PlainCategories == [c \in {NameOrder[1]} |->
                       [member_cap |-> None, members |-> << >>]]

GuildInit ==
    \E n \in 0 .. EventLimit :
        /\ store = [e \in {IdOrder[k] : k \in 1 .. n} |->
                       [permitted_roles |-> None,
                        categories |-> PlainCategories]]
        /\ cache = store
        /\ message = [e \in DOMAIN store |-> EventEmbed(PlainCategories)]
        /\ views = [e \in DOMAIN store |-> Buttons(e, PlainCategories)]
        /\ startup = Ready
        /\ Standing(store)
        /\ NoClicks

GuildNext ==
    \/ \E g \in Guilds : WizardInvoke(g)
    \/ \E g \in Guilds : WizardCheck(g)
    \/ \E g \in Guilds, event_expiry \in Expiries :
          WizardBasics(g, "text", TitleLimit, DescriptionLimit, event_expiry)
    \/ \E g \in Guilds : WizardCategory(g, NameOrder[1], Skip)
    \/ \E g \in Guilds, create_another \in {"no", "none"} :
          WizardAnother(g, create_another)
    \/ \E g \in Guilds : WizardRoleOptions(g, RoleLimit + 1)
    \/ \E g \in Guilds : WizardTimeout(g)
    \/ \E g \in Guilds : WizardPublish(g)
    \/ \E g \in Guilds : WizardInsert(g)
    \/ \E g \in Guilds : WizardRefresh(g)
    \/ \E g \in Guilds : WizardTimer(g)
    \/ \E g \in Guilds : WizardFinish(g)
    \/ \E e \in Ending : TimerFire(e)
    \/ \E e \in Ending : ExpiryGet(e)
    \/ \E e \in Ending : ExpiryFetch(e)
    \/ \E e \in Ending : ExpiryStrip(e)
    \/ \E e \in Ending : ExpiryDelete(e)
    \/ \E e \in Ending : ExpiryRefresh(e)
    \/ \E e \in Ending : ExpirySend(e, FALSE)
    \/ \E e \in Ending : DeleteInvoke(e)
    \/ \E e \in Ending : DeleteGet(e)
    \/ \E e \in Ending : DeleteMessage(e)
    \/ \E e \in Ending : DeleteDelete(e)
    \/ \E e \in Ending : DeleteRefresh(e)

GuildSpec == GuildInit /\ [][GuildNext]_vars

(***************************************************************************)
(* One guild without events: an operator sets up an event with one or two  *)
(* categories, members click its buttons, a store write or a message edit  *)
(* of a click can fail, a moderator deletes the event, its timer comes     *)
(* due.                                                                    *)
(***************************************************************************)
\* the names an operator types for the board: the first of CatOrder that
\* is not among the categories
BoardNames(cats) ==
    LET unused == {k \in 1 .. Len(CatOrder) : CatOrder[k] \notin DOMAIN cats}
    IN  {CatOrder[k] : k \in {j \in unused : \A i \in unused : j <= i}}

BoardNext ==
    \/ /\ Cardinality(Published) < MaxSetups
       /\ WizardInvoke("g1")
    \/ WizardCheck("g1")
    \/ WizardBasics("g1", "text", TitleLimit, DescriptionLimit, "parsed")
    \/ \E name \in BoardNames(wizard["g1"].categories) :
          WizardCategory("g1", name, Skip)
    \/ \E create_another \in {"yes", "no"} :
          WizardAnother("g1", create_another)
    \/ WizardRoleOptions("g1", RoleLimit + 1)
    \/ WizardPublish("g1")
    \/ WizardInsert("g1")
    \/ WizardRefresh("g1")
    \/ WizardTimer("g1")
    \/ WizardFinish("g1")
    \/ \E h \in 1 .. MaxLifeClicks, e \in Ending, c \in CatNames,
          u \in 1 .. 1 : Click(h, e, c, u, {})
    \/ \E h \in Handlers : CallbackDecide(h)
    \/ \E h \in Handlers : CallbackUpdate(h)
    \/ \E h \in Handlers : CallbackUpdateFails(h)
    \/ \E h \in Handlers : CallbackRefresh(h)
    \/ \E h \in Handlers : CallbackEdit(h)
    \/ \E h \in Handlers : CallbackEditFails(h)
    \/ \E h \in Handlers : CallbackSend(h)
    \/ \E e \in Ending : TimerFire(e)
    \/ \E e \in Ending : ExpiryGet(e)
    \/ \E e \in Ending : ExpiryFetch(e)
    \/ \E e \in Ending : ExpiryStrip(e)
    \/ \E e \in Ending : ExpiryDelete(e)
    \/ \E e \in Ending : ExpiryRefresh(e)
    \/ \E e \in Ending : ExpirySend(e, FALSE)
    \/ \E e \in Ending : DeleteInvoke(e)
    \/ \E e \in Ending : DeleteGet(e)
    \/ \E e \in Ending : DeleteMessage(e)
    \/ \E e \in Ending : DeleteDelete(e)
    \/ \E e \in Ending : DeleteRefresh(e)

BoardSpec == WizardInit /\ [][BoardNext]_vars

(***************************************************************************)
(* Published events whose timers come due while members click: every run   *)
(* of the callback starts, and decides, before the timer of its event      *)
(* fires; what it does after its decision meets the expiry listener.       *)
(***************************************************************************)
DueInit ==
    /\ store = [e \in Ending |-> NewRow([c \in CatNames |-> None], None)]
    /\ cache = store
    /\ message = [e \in Ending |-> NewEmbed([c \in CatNames |-> None])]
    /\ views = [e \in Ending |-> Buttons(e, store[e].categories)]
    /\ startup = Ready
    /\ Standing(store)
    /\ NoClicks

DueNext ==
    \/ \E h \in 1 .. MaxLifeClicks, e \in Ending, c \in CatNames,
          u \in Users : e \in timers /\ Click(h, e, c, u, {})
    \/ \E h \in Handlers :
          interaction[h].entry_id \in timers /\ CallbackDecide(h)
    \/ \E h \in Handlers : CallbackUpdate(h)
    \/ \E h \in Handlers : CallbackRefresh(h)
    \/ \E h \in Handlers : CallbackEdit(h)
    \/ \E h \in Handlers : CallbackSend(h)
    \/ \E e \in Ending : TimerFire(e)
    \/ \E e \in Ending : ExpiryGet(e)
    \/ \E e \in Ending : ExpiryFetch(e)
    \/ \E e \in Ending : ExpiryStrip(e)
    \/ \E e \in Ending : ExpiryDelete(e)
    \/ \E e \in Ending : ExpiryRefresh(e)
    \/ \E e \in Ending : ExpirySend(e, FALSE)

DueSpec == DueInit /\ [][DueNext]_vars

(***************************************************************************)
(* A published event whose first category is filled: with few members, or  *)
(* with so many that the roster is about as long as a message may be.  A   *)
(* member and a newcomer click, the timer comes due, the channel may       *)
(* refuse the roster.                                                      *)
(***************************************************************************)
\* how many members the first category has at the start
Fills == 0 .. MaxFill \cup {Crowd - 1, Crowd}

\* a user who is in no category at the start
Newcomer == Crowd + 1

\* the categories of an event after users 1 .. n joined the first one
Filled(n) ==
    [NoCategories EXCEPT ![CatOrder[1]].members = [k \in 1 .. n |-> k]]

CrowdInit ==
    \E n \in Fills :
        /\ store = [e \in Ending |->
                       [permitted_roles |-> None, categories |-> Filled(n)]]
        /\ cache = store
        /\ message = [e \in Ending |->
                         RefreshEmbedField(Filled(n)[CatOrder[1]].members,
                                           NoEmbed, CatOrder[1], None)]
        /\ views = [e \in Ending |-> Buttons(e, Filled(n))]
        /\ startup = Ready
        /\ Standing(store)
        /\ NoClicks

CrowdNext ==
    \/ \E h \in 1 .. MaxLifeClicks, e \in Ending, c \in CatNames,
          u \in {1, Newcomer} : Click(h, e, c, u, {})
    \/ \E h \in Handlers : CallbackDecide(h)
    \/ \E h \in Handlers : CallbackUpdate(h)
    \/ \E h \in Handlers : CallbackRefresh(h)
    \/ \E h \in Handlers : CallbackEdit(h)
    \/ \E h \in Handlers : CallbackSend(h)
    \/ \E e \in Ending : TimerFire(e)
    \/ \E e \in Ending : ExpiryGet(e)
    \/ \E e \in Ending : ExpiryFetch(e)
    \/ \E e \in Ending : ExpiryStrip(e)
    \/ \E e \in Ending : ExpiryDelete(e)
    \/ \E e \in Ending : ExpiryRefresh(e)
    \/ \E e \in Ending, forbidden \in BOOLEAN : ExpirySend(e, forbidden)

CrowdSpec == CrowdInit /\ [][CrowdNext]_vars

(***************************************************************************)
(* Notions the properties share.                                           *)
(***************************************************************************)
\* the runs that have started
Started == {h \in Handlers : pc[h] # "idle"}

\* a run has read the row and not yet finished its write and refresh
Mutating(h) == pc[h] \in {"update", "refresh"}

\* the step of run h from the row read to its decision
Decided(h) == pc[h] = "get" /\ pc'[h] # "get"

\* the members list of a category of a row
Members(row, c) == row.categories[c].members

\* a capacity is set (the callback takes None and 0 for no capacity)
CapacitySet(data) == Truthy(data.member_cap)

\* the capacity of a category is set and reached
CapacityReached(data) ==
    /\ CapacitySet(data)
    /\ \A n \in data.member_cap : Len(data.members) >= n

\* the user holds one of the permitted roles, or the event has none
HoldsPermittedRole(row, user_roles) ==
    row.permitted_roles = None \/ row.permitted_roles \cap user_roles # {}

\* the categories of a row that list the user
CategoriesOf(row, u) == {c \in CatNames : In(u, Members(row, c))}

(***************************************************************************)
(* C1.  For any event id at most one run of callback is between its read   *)
(* of the membership and the end of its write and cache refresh.           *)
(* Fails: the callback takes no lock, two runs are there together.         *)
(***************************************************************************)
C1_Serialized ==
    \A h1 \in Handlers, h2 \in Handlers :
        (h1 # h2 /\ interaction[h1].entry_id = interaction[h2].entry_id)
            => ~ (Mutating(h1) /\ Mutating(h2))

(***************************************************************************)
(* C2.  No lost update: when the only two clicks on an event come from two *)
(* different users and both end with "added", the stored event lists both  *)
(* users.  Fails: the second UPDATE overwrites the first.                  *)
(***************************************************************************)
C2_NoLostUpdate ==
    \A h1 \in Handlers, h2 \in Handlers :
        ( /\ h1 # h2
          /\ Started = {h1, h2}
          /\ departed = {}
          /\ pc[h1] = "done" /\ pc[h2] = "done"
          /\ reply[h1] = "added" /\ reply[h2] = "added"
          /\ interaction[h1].entry_id = interaction[h2].entry_id
          /\ interaction[h1].user # interaction[h2].user )
        => /\ In(interaction[h1].user,
                 Members(store[interaction[h1].entry_id],
                         interaction[h1].category_name))
           /\ In(interaction[h2].user,
                 Members(store[interaction[h2].entry_id],
                         interaction[h2].category_name))

(***************************************************************************)
(* C3.  N clicks of N distinct users on one empty category of capacity k,  *)
(* N > k, end with exactly k "added" and N - k "full", and the stored      *)
(* members are exactly the k admitted users.                               *)
(* Fails: runs that read the empty list together are all admitted.         *)
(***************************************************************************)
C3_ExactlyKAdmitted ==
    \A e \in EntryIds, c \in CatNames :
        LET data == store[e].categories[c]
            k == CHOOSE n \in data.member_cap : TRUE
            admitted == {h \in Started : reply[h] = "added"}
            refused == {h \in Started : reply[h] = "full"}
        IN  ( /\ CapacitySet(data)
              /\ store[e].permitted_roles = None
              /\ departed = {}
              /\ \A h \in Started :
                    /\ pc[h] = "done"
                    /\ interaction[h].entry_id = e
                    /\ interaction[h].category_name = c
              /\ \A h1 \in Started, h2 \in Started :
                    h1 # h2 => interaction[h1].user # interaction[h2].user
              /\ Cardinality(Started) > k )
            => /\ Cardinality(admitted) = k
               /\ Cardinality(refused) = Cardinality(Started) - k
               /\ Len(data.members) = k
               /\ \A h \in Started :
                     h \in admitted <=> In(interaction[h].user, data.members)

C5_OneCategoryPerUser ==
    \A e \in EntryIds, u \in Users :
        Cardinality(CategoriesOf(store[e], u)) <= 1

\* one user's clicks on two categories were both answered "added"
C5_Witness ==
    \E h1 \in Handlers, h2 \in Handlers :
        /\ h1 # h2
        /\ pc[h1] = "done" /\ reply[h1] = "added"
        /\ pc[h2] = "done" /\ reply[h2] = "added"
        /\ interaction[h1].user = interaction[h2].user
        /\ interaction[h1].entry_id = interaction[h2].entry_id
        /\ interaction[h1].category_name # interaction[h2].category_name
        /\ Cardinality(CategoriesOf(store[interaction[h1].entry_id],
                                    interaction[h1].user)) = 1

(***************************************************************************)
(* C6.  For a user of the guild in no category who may join category C (not full, role  *)
(* permitted), Enroll answers "added", and the same click handled next on  *)
(* what was written answers "removed" and gives back the membership of     *)
(* before.  Fails: with a member of C who has left the guild the first     *)
(* click raises in refresh_embed_field and nothing is added.               *)
(***************************************************************************)
C6_ToggleRestores ==
    [][\A h \in Handlers :
        LET rec == Record(h)
            c == interaction[h].category_name
            u == interaction[h].user
            again == Decide([rec EXCEPT !.categories = categories'[h]],
                            [interaction[h] EXCEPT !.embed = embed'[h]],
                            departed)
        IN  ( /\ Decided(h)
              /\ u \notin departed
              /\ CategoriesOf(rec, u) = {}
              /\ ~ CapacityReached(rec.categories[c])
              /\ HoldsPermittedRole(rec, interaction[h].roles) )
            => /\ pc'[h] = "update"
               /\ state'[h] = "added"
               /\ again.ret = "ok"
               /\ again.state = "removed"
               /\ again.categories = rec.categories]_vars

(***************************************************************************)
(* C7.  A click of a user on the category that lists them removes the user *)
(* from it and answers "removed", whatever the capacity and the roles.     *)
(* Fails: when another member of the category has left the guild the       *)
(* callback raises in refresh_embed_field and removes nobody.              *)
(***************************************************************************)
C7_RemovalAlwaysSucceeds ==
    [][\A h \in Handlers :
        LET rec == Record(h)
            c == interaction[h].category_name
            u == interaction[h].user
        IN  (Decided(h) /\ u \notin departed /\ In(u, Members(rec, c)))
            => /\ pc'[h] = "update"
               /\ state'[h] = "removed"
               /\ categories'[h] =
                      [rec.categories EXCEPT ![c].members = Remove(@, u)]]_vars

C10_MovedOrAdded ==
    [][\A h \in Handlers :
        LET rec == Record(h)
            c == interaction[h].category_name
            u == interaction[h].user
            from == CategoriesOf(rec, u)
            joined == [rec.categories EXCEPT ![c].members = Append(@, u)]
        IN  ( /\ Decided(h)
              /\ u \notin departed
              /\ ~ In(u, Members(rec, c))
              /\ ~ CapacityReached(rec.categories[c])
              /\ HoldsPermittedRole(rec, interaction[h].roles) )
            => /\ pc'[h] = "update"
               /\ IF from = {}
                  THEN /\ state'[h] = "added"
                       /\ categories'[h] = joined
                  ELSE /\ state'[h] = "moved"
                       /\ \E d \in from :
                             categories'[h] =
                                 [joined EXCEPT ![d].members = Remove(@, u)]]_vars

(***************************************************************************)
(* Notions of the properties about deletion, expiry and events_init.       *)
(***************************************************************************)
\* run h of the callback takes a step
Steps(h) == pc'[h] # pc[h]

\* the listener for event e takes the step from its caching.get
ExpiryRead(e) == expiry[e] = "get" /\ expiry'[e] # "get"

\* events_init registers its views in this step
Reconciled == startup.pc = "register" /\ startup'.pc = "ready"

\* how many controls for (entry_id, category_name) a registry holds under
\* a message id
Controls(registry, msg_id, entry_id, category_name) ==
    IF msg_id \in DOMAIN registry
    THEN Cardinality({k \in 1 .. Len(registry[msg_id]) :
             /\ registry[msg_id][k].entry_id = entry_id
             /\ registry[msg_id][k].category_name = category_name})
    ELSE 0

\* every category of every row of the table has exactly one control under
\* the message of the row
OneControlEach(registry, table) ==
    \A e \in DOMAIN table : \A c \in DOMAIN table[e].categories :
        Controls(registry, e, e, c) = 1

(***************************************************************************)
(* C11.  A click on a control whose event row no longer exists ends with   *)
(* the NotFound outcome reported to the clicking user, with no store write *)
(* and no unhandled error.                                                 *)
(* Fails: record is None and line 52 raises TypeError.                     *)
(***************************************************************************)
C11_StaleClickNotFound ==
    [][\A h \in Handlers :
        (Decided(h) /\ interaction[h].entry_id \notin DOMAIN cache)
            => /\ pc'[h] = "done"
               /\ reply'[h] = "notfound"
               /\ store' = store]_vars

(***************************************************************************)
(* C12.  Once the row of an event has been deleted, a callback run for    *)
(* that event id that read the membership before the deletion and comes to *)
(* its write after it makes no row for the id exist again, and ends there  *)
(* with NotFound instead of going on to answer added, removed or moved.    *)
(* Fails: the UPDATE changes no row, which the callback does not look at;  *)
(* it goes on, edits the message and answers its added, removed or moved.  *)
(***************************************************************************)
C12_DeletedStaysDeleted ==
    [][\A h \in Handlers :
        (Steps(h) /\ pc[h] = "update"
                  /\ interaction[h].entry_id \notin DOMAIN store)
            => /\ interaction[h].entry_id \notin DOMAIN store'
               /\ pc'[h] = "done"
               /\ reply'[h] = "notfound"]_vars

(***************************************************************************)
(* C13.  When the timer fires for an event id whose row no longer exists,  *)
(* the listener ends as a no-op: no error, no message edited, the store    *)
(* unchanged.                                                              *)
(* Fails: record is None and record["msg_id"] at line 144 raises           *)
(* TypeError; event_delete leaves the timer of the event pending.          *)
(***************************************************************************)
C13_ExpiryOfDeletedIsNoOp ==
    [][\A e \in EventIds :
        (ExpiryRead(e) /\ e \notin DOMAIN store /\ e \notin DOMAIN cache)
            => /\ expiry'[e] \in {"returned", "done"}
               /\ store' = store
               /\ message' = message
               /\ shown' = shown]_vars

(***************************************************************************)
(* C14.  A run of the listener that found the row of its event ends with   *)
(* the row deleted from the store and from the cache, also when the        *)
(* published message has been removed.                                     *)
(* Fails: on discord.NotFound the listener returns at line 146, before the *)
(* DELETE of line 156; the row stays.                                      *)
(***************************************************************************)
C14_ExpiryDeletesRow ==
    \A e \in EventIds :
        (expiry[e] \in {"returned", "done"} /\ deletion[e] = "idle")
            => (e \notin DOMAIN store /\ e \notin DOMAIN cache)

(***************************************************************************)
(* C15.  A run of events_init that finds the views of its records          *)
(* registered, as a run before it left them, leaves the registry as it     *)
(* is; after every run each category of each record has exactly one        *)
(* control under the message of the record.                                *)
(***************************************************************************)
C15_ReconcileIdempotent ==
    [][Reconciled =>
        /\ (\A m \in DOMAIN startup.records :
                /\ m \in DOMAIN views
                /\ views[m] = Buttons(m, startup.records[m].categories))
              => views' = views
        /\ OneControlEach(views', startup.records)]_vars

\* events_init has run twice over a table with rows
C15_Witness ==
    /\ startup.runs = 2
    /\ startup.pc = "ready"
    /\ DOMAIN store # {}
    /\ DOMAIN store \subseteq DOMAIN views

(***************************************************************************)
(* C16 as stated.  When events_init has registered its views, every        *)
(* category of every row of the table has exactly one control under the    *)
(* message of the row, and the bot holds no view for an event that is not  *)
(* in the table.                                                           *)
(* Fails in its second half: a row deleted between the SELECT and the      *)
(* add_view, or before a later run, leaves its view registered.            *)
(***************************************************************************)
C16_OnlyStoredRegistered ==
    [][Reconciled =>
        /\ OneControlEach(views', store')
        /\ DOMAIN views' \subseteq DOMAIN store']_vars

(***************************************************************************)
(* C16, amended.  When events_init has registered its views, every         *)
(* category of every row of the table has exactly one control under the    *)
(* message of the row, and the views the run has registered or replaced    *)
(* are those of the rows it read from the table.                           *)
(***************************************************************************)
C16_ReadRowsRegistered ==
    [][Reconciled =>
        /\ OneControlEach(views', store')
        /\ \A m \in DOMAIN views' :
               (m \notin DOMAIN views \/ views'[m] # views[m])
                   => m \in DOMAIN startup.records]_vars

\* the first run of events_init has registered the views of two events
C16_Witness ==
    /\ startup.runs = 1
    /\ startup.pc = "ready"
    /\ Cardinality(DOMAIN store) = 2
    /\ DOMAIN views = DOMAIN store

(***************************************************************************)
(* C17.  A click on a message of before the restart that arrives while no  *)
(* view with its button is registered starts no run of the callback: the   *)
(* interaction fails, and table, cache and messages stay as they are.  A   *)
(* run of the callback is only ever under way for an event and category    *)
(* whose button is registered under the message of that event.             *)
(***************************************************************************)
C17_UnregisteredClickDropped ==
    [][\A h \in Handlers :
        /\ (pc[h] = "idle" /\ Steps(h)
                /\ Controls(views, interaction'[h].entry_id,
                            interaction'[h].entry_id,
                            interaction'[h].category_name) = 0)
              => /\ pc'[h] = "done"
                 /\ reply'[h] = "failed"
                 /\ store' = store /\ cache' = cache /\ message' = message
        /\ pc'[h] \notin {"idle", "done"}
              => Controls(views', interaction'[h].entry_id,
                          interaction'[h].entry_id,
                          interaction'[h].category_name) = 1]_vars

\* a click was dropped before events_init registered the views, and a
\* later click on the same message is being handled
C17_Witness ==
    \E h1 \in Handlers, h2 \in Handlers :
        /\ reply[h1] = "failed"
        /\ pc[h2] = "get"
        /\ interaction[h1].entry_id = interaction[h2].entry_id

(***************************************************************************)
(* Notions of the properties about the wizard.                             *)
(***************************************************************************)
\* how many rows the guild has in the table
EventCount(g) == Cardinality({e \in DOMAIN store : GuildOf(e) = g})

\* the session of the guild has passed the check of line 217 and has not
\* inserted its row
Admitted(g) ==
    wizard[g].pc \in {"basics", "category", "another", "roles", "publish",
                      "insert"}

\* the step is the answer to an invocation that max_concurrency rejected
Rejected(g) == wizard'[g].notice = "busy" /\ wizard[g].notice # "busy"

(***************************************************************************)
(* C18.  In every reachable state a guild has at most 10 rows in the       *)
(* table, and a session of the wizard that has passed its check runs in a  *)
(* guild with fewer than 10 rows: with 10 rows the wizard refuses.         *)
(***************************************************************************)
C18_AtMostTenEvents ==
    \A g \in Guilds :
        /\ EventCount(g) <= EventLimit
        /\ Admitted(g) => EventCount(g) < EventLimit

\* the wizard has put the tenth row of the guild into the table after one
\* of its rows was deleted, and has refused the next invocation
C18_Witness ==
    /\ EventCount("g1") = EventLimit
    /\ IdOrder[1] \notin DOMAIN store
    /\ wizard["g1"].notice = "toomany"

(***************************************************************************)
(* C19.  Every row the wizard has written has at least 1 and at most 9     *)
(* categories.                                                             *)
(***************************************************************************)
C19_OneToNineCategories ==
    \A e \in DOMAIN store :
        /\ Cardinality(DOMAIN store[e].categories) >= 1
        /\ Cardinality(DOMAIN store[e].categories) <= CategoryLimit

\* the wizard has written a row with 9 categories
C19_Witness ==
    \E e \in DOMAIN store :
        Cardinality(DOMAIN store[e].categories) = CategoryLimit

(***************************************************************************)
(* C20.  While a session of the wizard runs in a guild, an invocation in   *)
(* that guild is answered at once with the rejection, starts nothing and   *)
(* writes nothing, and the session goes on as it was; an invocation is     *)
(* only rejected for a session of its own guild, and a session only        *)
(* starts in a guild without one.                                          *)
(***************************************************************************)
C20_OneWizardPerGuild ==
    [][\A g \in Guilds :
        /\ Rejected(g)
              => /\ wizard[g].pc # "idle"
                 /\ wizard' = [wizard EXCEPT ![g].notice = "busy"]
                 /\ store' = store /\ cache' = cache
                 /\ message' = message /\ views' = views
                 /\ timers' = timers
        /\ (wizard'[g].pc = "check" /\ wizard[g].pc # "check")
              => wizard[g].pc = "idle"]_vars

\* an invocation was rejected in a guild whose session goes on, while a
\* session that started after it runs in the other guild
C20_Witness ==
    /\ wizard["g1"].notice = "busy"
    /\ wizard["g1"].pc = "roles"
    /\ wizard["g2"].pc = "basics"

(***************************************************************************)
(* Notions of the properties about the steps of the wizard.                *)
(***************************************************************************)
\* the session of guild g takes the step from one place to another
Goes(g, from, to) == wizard[g].pc = from /\ wizard'[g].pc = to

\* the session of guild g ends in this step with the notice
EndsWith(g, notices) ==
    /\ wizard[g].pc # "idle"
    /\ wizard'[g].pc = "idle"
    /\ wizard'[g].notice \in notices

\* the notices of a setup that failed at one of its steps
Failures == {"cancelled", "timeout", "error"}

\* a capacity within the range the operator is asked for
InRange(member_cap) == \A n \in member_cap : 1 <= n /\ n <= 100

C22_CompletionWritesOnce ==
    [][\A g \in Guilds :
        LET cats == wizard[g].categories
            new == wizard'[g].entry_id
            id == wizard[g].entry_id
        IN  /\ Goes(g, "publish", "insert")
                  => /\ new \notin DOMAIN message
                     /\ DOMAIN message' = DOMAIN message \cup {new}
                     /\ DOMAIN message'[new] = DOMAIN cats
                     /\ new \in shown'
                     /\ Len(views'[new]) = Cardinality(DOMAIN cats)
                     /\ \A c \in DOMAIN cats :
                           Controls(views', new, new, c) = 1
            /\ Goes(g, "insert", "refresh")
                  => /\ id \notin DOMAIN store
                     /\ DOMAIN store' = DOMAIN store \cup {id}
                     /\ \A e \in DOMAIN store : store'[e] = store[e]
                     /\ store'[id].permitted_roles = wizard[g].roles
                     /\ DOMAIN store'[id].categories = DOMAIN cats
                     /\ \A c \in DOMAIN cats :
                           /\ store'[id].categories[c].members = << >>
                           /\ store'[id].categories[c].member_cap
                                  = cats[c].member_cap
            /\ Goes(g, "refresh", "timer")
                  => \A e \in RowsOf(store, g) \cup RowsOf(cache', g) :
                        /\ e \in DOMAIN store /\ e \in DOMAIN cache'
                        /\ cache'[e] = store[e]
            /\ Goes(g, "timer", "finish")
                  => /\ id \notin timers
                     /\ timers' = timers \cup {id}
            /\ EndsWith(g, {"created"}) => wizard[g].pc = "finish"]_vars

\* a setup with two categories was completed: its row, its message and
\* its timer are there
C22_Witness ==
    \E g \in Guilds, e \in DOMAIN store :
        /\ wizard[g].notice = "created"
        /\ Cardinality(DOMAIN store[e].categories) = 2
        /\ e \in DOMAIN message /\ e \in timers /\ e \in DOMAIN cache

(***************************************************************************)
(* C23.  Every step of add_category that takes a category adds exactly one *)
(* new name to the categories of the setup, and every name of the          *)
(* categories has at most 25 characters.                                   *)
(* Fails: line 305 joins the two tests with `or`, a name of more than 25   *)
(* characters is taken when it is new and a name answered before is taken  *)
(* again when it is short.                                                 *)
(***************************************************************************)
C23_NamesShortAndNew ==
    [][\A g \in Guilds :
        LET old == DOMAIN wizard[g].categories
            new == DOMAIN wizard'[g].categories
        IN  (wizard[g].pc = "category"
                 /\ wizard'[g].pc \in {"another", "roles"})
            => /\ Cardinality(new \ old) = 1
               /\ \A name \in new : name # LongName]_vars

(***************************************************************************)
(* C24.  The capacity of every category of a setup and of every stored row *)
(* is absent or an integer from 1 to 100.                                  *)
(* Fails: for the answer 0 line 341 tests `member_cap and ...`, which is   *)
(* false, and 0 is stored.                                                 *)
(***************************************************************************)
C24_CapacityInRange ==
    /\ \A g \in Guilds : \A c \in DOMAIN wizard[g].categories :
          InRange(wizard[g].categories[c].member_cap)
    /\ \A e \in DOMAIN store : \A c \in DOMAIN store[e].categories :
          InRange(store[e].categories[c].member_cap)

(***************************************************************************)
(* Notions of the properties about failures, the cache and the roster.     *)
(***************************************************************************)
\* the edit_message of run h fails in this step
EditFails(h) == pc[h] = "edit" /\ pc'[h] = "done" /\ reply'[h] = "raise"

\* the count a published message shows for a category
ShownCount(e, c) == message[e][c].count

\* an operation stands between its write to the table and its refresh
Unrefreshed ==
    \/ \E h \in Handlers : pc[h] = "refresh"
    \/ \E e \in EventIds : expiry[e] = "refresh" \/ deletion[e] = "refresh"
    \/ \E g \in Guilds : wizard[g].pc = "refresh"

\* the step is the write to the table of an operation that refreshes next
WriteThenRefresh ==
    \/ \E h \in Handlers : pc[h] = "update" /\ pc'[h] = "refresh"
    \/ \E e \in EventIds : expiry[e] = "delete" /\ expiry'[e] = "refresh"
    \/ \E e \in EventIds : deletion[e] = "delete" /\ deletion'[e] = "refresh"
    \/ \E g \in Guilds : Goes(g, "insert", "refresh")

\* the step is the refresh of an operation that wrote: afterwards the
\* cached rows of the guild are the rows of the table, and no message was
\* edited or sent in between
RefreshOf(g) ==
    /\ message' = message
    /\ \A e \in RowsOf(store, g) \cup RowsOf(cache', g) :
          /\ e \in DOMAIN store /\ e \in DOMAIN cache'
          /\ cache'[e] = store[e]

\* cache and table hold the same rows
CacheIsStore ==
    /\ DOMAIN cache = DOMAIN store
    /\ \A e \in DOMAIN store : cache[e] = store[e]

(***************************************************************************)
(* C25.  A run of the callback whose edit_message fails after its UPDATE   *)
(* leaves table and message in agreement: for every category the message   *)
(* shows the number of members the table lists.                            *)
(* Fails: nothing undoes the UPDATE, the table lists the user and the      *)
(* message shows the count of before.                                      *)
(***************************************************************************)
C25_CommitsBothOrNeither ==
    [][\A h \in Handlers :
        LET e == interaction[h].entry_id
        IN  (EditFails(h) /\ e \in DOMAIN message' /\ e \in DOMAIN store')
            => \A c \in DOMAIN message'[e] :
                  message'[e][c].count
                      = Len(store'[e].categories[c].members)]_vars

(***************************************************************************)
(* C26.  A run of the callback that has come to its store write goes on    *)
(* to the cache refresh, whether the write went through or failed.         *)
(* Fails: lines 86-93 stand in no try, a failed write ends the run before  *)
(* the refresh.                                                            *)
(***************************************************************************)
C26_RefreshAttemptedOnFailure ==
    [][\A h \in Handlers :
        (Steps(h) /\ pc[h] = "update") => pc'[h] = "refresh"]_vars

(***************************************************************************)
(* C27.  In every reachable state a published message that carries its    *)
(* buttons has its row in the table, and caching.get finds the row.        *)
(* Fails: event_setup sends the message at line 433 and inserts the row    *)
(* at lines 436-440.                                                       *)
(***************************************************************************)
C27_PublishedHasRow ==
    \A e \in shown :
        e \in DOMAIN message
            => e \in DOMAIN store /\ CachingGet(cache, e) # NoRecord

(***************************************************************************)
(* C28.  Every step that changes the table is the write of a callback, of  *)
(* the expiry listener, of the delete command or of the wizard, and the    *)
(* next step of that operation is its cache refresh for the same guild,    *)
(* with no message edited or sent before it; and whenever no operation     *)
(* stands between its write and its refresh, the cache holds exactly the   *)
(* rows of the table.                                                      *)
(***************************************************************************)
C28_RefreshFollowsWrite ==
    [][/\ store' # store => WriteThenRefresh
       /\ \A h \in Handlers :
             (Steps(h) /\ pc[h] = "refresh")
                 => RefreshOf(GuildOf(interaction[h].entry_id))
       /\ \A e \in EventIds :
             /\ (expiry[e] = "refresh" /\ expiry'[e] # "refresh")
                   => RefreshOf(GuildOf(e))
             /\ (deletion[e] = "refresh" /\ deletion'[e] # "refresh")
                   => RefreshOf(GuildOf(e))
       /\ \A g \in Guilds :
             (wizard[g].pc = "refresh" /\ wizard'[g].pc # "refresh")
                 => RefreshOf(g)
       /\ ~ Unrefreshed' => CacheIsStore']_vars

\* the wizard has written and refreshed, a click has written and
\* refreshed, and the listener has deleted and refreshed
C28_Witness ==
    /\ \E g \in Guilds : wizard[g].notice = "created"
    /\ \E h \in Handlers : pc[h] = "done" /\ reply[h] = "added"
    /\ \E e \in EventIds : expiry[e] = "send"
    /\ ~ Unrefreshed
    /\ CacheIsStore

(***************************************************************************)
(* C29.  When no run of the callback is under way, every published message *)
(* shows for every category the number of members the table lists.         *)
(* Fails: each run edits the message from the embed its click carried, a   *)
(* run that follows another shows the other's category as it was before.   *)
(***************************************************************************)
C29_CountsMatchStore ==
    InFlight = {}
        => \A e \in EntryIds, c \in CatNames :
              ShownCount(e, c) = Len(store[e].categories[c].members)

(***************************************************************************)
(* C30.  With every run of the callback decided before the timer of its   *)
(* event fires: when the listener of the event deletes the row, no run    *)
(* for the event stands before its write, and the roster the listener has  *)
(* put together names every member of the guild the row lists at that      *)
(* moment.                                                                 *)
(* Fails: nothing orders the listener and the callback, and the roster is  *)
(* made from the record read at line 140.                                  *)
(***************************************************************************)
C30_RosterHoldsCommitted ==
    [][\A e \in EventIds :
        (expiry[e] = "delete" /\ expiry'[e] = "refresh"
             /\ e \in DOMAIN store)
        => /\ \A h \in Handlers :
                 interaction[h].entry_id = e => pc[h] # "update"
           /\ \A c \in DOMAIN store[e].categories :
                 \A u \in Users :
                    (In(u, store[e].categories[c].members)
                         /\ u \notin departed)
                    => /\ c \in DOMAIN listener'[e].response_str
                       /\ In(u, listener'[e].response_str[c])]_vars

(***************************************************************************)
(* An event with capacities and permitted roles: everything that runs      *)
(* after its creation, enrollments, the expiry and the delete command.     *)
(***************************************************************************)
FrameNext ==
    \/ \E h \in 1 .. MaxLifeClicks, e \in EntryIds, c \in CatNames,
          u \in 1 .. 1 : Click(h, e, c, u, Roles)
    \/ \E h \in Handlers : CallbackDecide(h)
    \/ \E h \in Handlers : CallbackUpdate(h)
    \/ \E h \in Handlers : CallbackRefresh(h)
    \/ \E h \in Handlers : CallbackEdit(h)
    \/ \E h \in Handlers : CallbackSend(h)
    \/ \E e \in EntryIds : TimerFire(e)
    \/ \E e \in EntryIds : ExpiryGet(e)
    \/ \E e \in EntryIds : ExpiryFetch(e)
    \/ \E e \in EntryIds : ExpiryStrip(e)
    \/ \E e \in EntryIds : ExpiryDelete(e)
    \/ \E e \in EntryIds : ExpiryRefresh(e)
    \/ \E e \in EntryIds : ExpirySend(e, FALSE)
    \/ \E e \in EntryIds : DeleteInvoke(e)
    \/ \E e \in EntryIds : DeleteGet(e)
    \/ \E e \in EntryIds : DeleteMessage(e)
    \/ \E e \in EntryIds : DeleteDelete(e)
    \/ \E e \in EntryIds : DeleteRefresh(e)

FrameSpec == Init /\ [][FrameNext]_vars

(***************************************************************************)
(* Three published events, two of one guild and one of another: members    *)
(* click on all of them while the first expires or is deleted.             *)
(***************************************************************************)
\* the published events: the first two ids, and the first id of guild g2
NeighbourIds == LifeIds \cup {IdOrder[Len(IdOrder)]}

NeighbourInit ==
    /\ store = [e \in NeighbourIds |->
                   NewRow([c \in CatNames |-> None], None)]
    /\ cache = store
    /\ message = [e \in NeighbourIds |->
                     NewEmbed([c \in CatNames |-> None])]
    /\ views = [e \in NeighbourIds |-> Buttons(e, store[e].categories)]
    /\ startup = Ready
    /\ Standing(store)
    /\ NoClicks

NeighbourNext ==
    \/ \E h \in 1 .. MaxLifeClicks, e \in NeighbourIds, u \in 1 .. 1 :
          Click(h, e, CatOrder[1], u, {})
    \/ \E h \in Handlers : CallbackDecide(h)
    \/ \E h \in Handlers : CallbackUpdate(h)
    \/ \E h \in Handlers : CallbackRefresh(h)
    \/ \E h \in Handlers : CallbackEdit(h)
    \/ \E h \in Handlers : CallbackSend(h)
    \/ \E e \in Ending : TimerFire(e)
    \/ \E e \in Ending : ExpiryGet(e)
    \/ \E e \in Ending : ExpiryFetch(e)
    \/ \E e \in Ending : ExpiryStrip(e)
    \/ \E e \in Ending : ExpiryDelete(e)
    \/ \E e \in Ending : ExpiryRefresh(e)
    \/ \E e \in Ending : ExpirySend(e, FALSE)
    \/ \E e \in Ending : DeleteInvoke(e)
    \/ \E e \in Ending : DeleteGet(e)
    \/ \E e \in Ending : DeleteMessage(e)
    \/ \E e \in Ending : DeleteDelete(e)
    \/ \E e \in Ending : DeleteRefresh(e)

NeighbourSpec == NeighbourInit /\ [][NeighbourNext]_vars

(***************************************************************************)
(* Notions of the properties about the roster and the embed field.         *)
(***************************************************************************)
\* the listener of event e takes the step from its length check
RosterStep(e) == expiry[e] = "send" /\ expiry'[e] # "send"

\* the smaller of two numbers
Min(a, b) == IF a <= b THEN a ELSE b

\* a list without a user, the others in their order
Others(list, u) ==
    LET other(x) == x # u
    IN  SelectSeq(list, other)

\* the users of all categories of a mapping, as often as they are listed
RECURSIVE Enrolments(_, _)
Enrolments(cats, names) ==
    IF names = << >> THEN 0
    ELSE Len(cats[Head(names)].members) + Enrolments(cats, Tail(names))

(***************************************************************************)
(* C31.  When the roster of the listener has more than 2000 characters     *)
(* the listener ends with the error and the channel receives nothing;      *)
(* otherwise the channel receives the whole roster or, refusing it,        *)
(* nothing.                                                                *)
(***************************************************************************)
C31_TooLargeRosterNotPosted ==
    [][\A e \in EventIds :
        RosterStep(e)
            => IF RosterLen(listener[e].response_str) > 2000
               THEN /\ expiry'[e] = "toolarge"
                    /\ listener'[e].response_str = Empty
               ELSE \/ /\ expiry'[e] = "done"
                       /\ listener'[e].response_str
                              = listener[e].response_str
                    \/ /\ expiry'[e] = "refused"
                       /\ listener'[e].response_str = Empty]_vars

\* the listener ended with the error for a roster of Crowd members
C31_Witness ==
    \E e \in EventIds :
        /\ expiry[e] = "toolarge"
        /\ listener[e].response_str = Empty
        /\ e \notin DOMAIN store

(***************************************************************************)
(* C32.  The field refresh_embed_field makes for a category with n members *)
(* shows the count n and the first min(n, 5) members in their order, the   *)
(* ellipsis exactly when n > 5, and the placeholder when n = 0.            *)
(* Fails: the slice of line 37 is names[:5 - n] for n < 5, which drops     *)
(* the last member of 3 and the last three of 4, and the ellipsis is       *)
(* added when 5 names are left, also for n = 5.                            *)
(***************************************************************************)
C32_FieldShowsFirstFive ==
    [][\A h \in Handlers :
        LET c == interaction[h].category_name
            members == categories'[h][c].members
            n == Len(members)
            field == embed'[h][c]
        IN  (Decided(h) /\ pc'[h] = "update")
            => /\ field.count = n
               /\ field.names = IF n = 0 THEN <<Dash>>
                                ELSE SubSeq(members, 1, Min(n, 5))
               /\ field.more <=> n > 5]_vars

(***************************************************************************)
(* C37.  A run of the callback that goes on to its UPDATE changes, against *)
(* the row it read, the membership of the clicking user only: every        *)
(* category lists the other users as before, at most two categories        *)
(* differ, and the number of enrolments of the event is one more for       *)
(* "added", one less for "removed" and the same for "moved".               *)
(***************************************************************************)
C37_OneUserChanges ==
    [][\A h \in Handlers :
        LET rec == Record(h)
            u == interaction[h].user
            new == categories'[h]
            names == Keys(rec.categories)
            before == Enrolments(rec.categories, names)
            after == Enrolments(new, names)
        IN  (Decided(h) /\ pc'[h] = "update")
            => /\ DOMAIN new = DOMAIN rec.categories
               /\ \A c \in DOMAIN new :
                     Others(new[c].members, u)
                         = Others(rec.categories[c].members, u)
               /\ Cardinality({c \in DOMAIN new :
                                  new[c] # rec.categories[c]}) <= 2
               /\ state'[h] = "added" => after = before + 1
               /\ state'[h] = "removed" => after = before - 1
               /\ state'[h] = "moved" => after = before]_vars

\* in an event with other members, one click was answered "moved" and
\* one "removed"
C37_Witness ==
    \E h1 \in Handlers, h2 \in Handlers, e \in DOMAIN store :
        /\ pc[h1] = "done" /\ reply[h1] = "moved"
        /\ pc[h2] = "done" /\ reply[h2] = "removed"
        /\ \E c \in DOMAIN store[e].categories :
              Len(store[e].categories[c].members) >= 2

(***************************************************************************)
(* C38.  A listener that ended with the error for a roster over the limit, *)
(* or whose roster the channel refused, has deleted the row and refreshed  *)
(* the cache before: neither the table nor the cache holds the event, and  *)
(* its last step leaves both as they were.                                 *)
(***************************************************************************)
C38_DeletedBeforeRoster ==
    [][\A e \in EventIds :
        (RosterStep(e) /\ expiry'[e] \in {"toolarge", "refused"})
            => /\ e \notin DOMAIN store /\ e \notin DOMAIN store'
               /\ e \notin DOMAIN cache /\ e \notin DOMAIN cache'
               /\ store' = store /\ cache' = cache]_vars

\* the channel refused the roster of an event with members; the row is
\* deleted
C38_Witness ==
    \E e \in EventIds :
        /\ expiry[e] = "refused"
        /\ e \notin DOMAIN store /\ e \notin DOMAIN cache
        /\ e \in DOMAIN message /\ message[e][CatOrder[1]].count > 0

(***************************************************************************)
(* C35.  No members list, in the table, in the cache or held by a run of   *)
(* the callback, lists a user twice, and a run keeps the users the row it  *)
(* read lists in their order and puts the user who joins behind them;      *)
(* also when two clicks of one user on one category are handled at the     *)
(* same time.                                                              *)
(***************************************************************************)
\* a list names no user twice
NoDuplicate(list) ==
    Cardinality({list[i] : i \in 1 .. Len(list)}) = Len(list)

\* no list of a mapping of categories names a user twice
NoDuplicates(cats) == \A c \in DOMAIN cats : NoDuplicate(cats[c].members)

\* run h joins its user to the category of its button, behind the others
JoinsLast(h) ==
    LET c == interaction[h].category_name
        u == interaction[h].user
        new == categories'[h][c].members
    IN  In(u, new) => new[Len(new)] = u

C35_ListsKeepJoinOrder ==
    /\ [](/\ \A e \in DOMAIN store : NoDuplicates(store[e].categories)
          /\ \A e \in DOMAIN cache : NoDuplicates(cache[e].categories)
          /\ \A h \in Handlers : NoDuplicates(categories[h]))
    /\ [][\A h \in Handlers :
            (Decided(h) /\ pc'[h] = "update")
                => /\ \A c \in DOMAIN categories'[h] :
                         Others(categories'[h][c].members,
                                interaction[h].user)
                             = Others(Record(h).categories[c].members,
                                      interaction[h].user)
                   /\ JoinsLast(h)]_vars

\* two clicks of the newcomer on one category of an event with members
\* are handled at the same time: one has written the row, the other has
\* decided on the row as it was before
C35_Witness ==
    \E h1 \in Handlers, h2 \in Handlers :
        /\ h1 # h2
        /\ pc[h1] = "refresh" /\ pc[h2] = "update"
        /\ interaction[h1].user = interaction[h2].user
        /\ interaction[h1].category_name = interaction[h2].category_name
        /\ interaction[h1].entry_id = interaction[h2].entry_id
        /\ state[h1] = "added" /\ state[h2] = "added"
        /\ LET e == interaction[h1].entry_id
               c == interaction[h1].category_name
           IN  /\ e \in DOMAIN store
               /\ Len(store[e].categories[c].members) >= 3
               /\ In(interaction[h1].user, store[e].categories[c].members)

(***************************************************************************)
(* C33.  A step of an enrollment, of the expiry or of the delete command   *)
(* leaves, in every row that stays in the table, the permitted roles, the  *)
(* set of category names and the capacity of each category as they were;   *)
(* a row changes only in the UPDATE of a run of the callback for its       *)
(* event, and there only in its members lists.                             *)
(***************************************************************************)
\* run h of the callback takes the step of its UPDATE for event e
Enrolls(h, e) ==
    /\ pc[h] = "update" /\ pc'[h] = "refresh"
    /\ interaction[h].entry_id = e

C33_OnlyMembersChange ==
    [][\A e \in DOMAIN store \cap DOMAIN store' :
        /\ store'[e].permitted_roles = store[e].permitted_roles
        /\ DOMAIN store'[e].categories = DOMAIN store[e].categories
        /\ \A c \in DOMAIN store[e].categories :
              store'[e].categories[c].member_cap
                  = store[e].categories[c].member_cap
        /\ store'[e] # store[e] => \E h \in Handlers : Enrolls(h, e)]_vars

\* an event with a capacity and permitted roles has a member
C33_Witness ==
    \E e \in DOMAIN store, c \in CatNames :
        /\ store[e].permitted_roles # None
        /\ Truthy(store[e].categories[c].member_cap)
        /\ Len(store[e].categories[c].members) > 0
        /\ \E h \in Handlers : pc[h] = "done" /\ reply[h] = "added"

(***************************************************************************)
(* C34.  A row of the table is changed or deleted only by a step of an     *)
(* operation on its own event: the UPDATE of a run of the callback for     *)
(* it, the DELETE of its expiry or the DELETE of its delete command.  No   *)
(* step for event E touches the row of another event, of the same guild    *)
(* or of another, whatever runs at the same time.                          *)
(***************************************************************************)
\* the expiry or the delete command of event e takes the step of its DELETE
Deletes(e) ==
    \/ expiry[e] = "delete" /\ expiry'[e] = "refresh"
    \/ deletion[e] = "delete" /\ deletion'[e] = "refresh"

C34_OtherRowsUntouched ==
    [][/\ DOMAIN store' \subseteq DOMAIN store
       /\ \A e \in DOMAIN store :
             IF e \in DOMAIN store'
             THEN store'[e] # store[e] => \E h \in Handlers : Enrolls(h, e)
             ELSE Deletes(e)]_vars

\* the first event is deleted while a run of the callback for the other
\* event of its guild stands before its UPDATE, and a member has joined
\* the event of the other guild
C34_Witness ==
    /\ IdOrder[1] \notin DOMAIN store
    /\ DOMAIN store = NeighbourIds \ {IdOrder[1]}
    /\ \E h \in Handlers :
          pc[h] = "update" /\ interaction[h].entry_id = IdOrder[2]
    /\ Len(store[IdOrder[Len(IdOrder)]].categories[CatOrder[1]].members) > 0

(***************************************************************************)
(* C36.  A setup asks for at most 9 categories: add_category has set at    *)
(* most 9 entries when the setup goes on or ends, whatever names are       *)
(* typed.                                                                  *)
(* Fails: line 305 takes a short name that is a key of categories already  *)
(* (C23), line 347 sets that key again, len(categories) stays as it was    *)
(* and line 354 asks for another category without end.                     *)
(***************************************************************************)
C36_AtMostNineEntered ==
    \A g \in Guilds : wizard[g].entered <= CategoryLimit

(***************************************************************************)
(* C39.  When a setup ends, with the event created, with an answer that    *)
(* was not taken, with a timeout, with an exception or with too many       *)
(* events, no setup runs in its guild any more, and the next `event        *)
(* create` in the guild is let run and not answered as a conflict.         *)
(***************************************************************************)
\* the notices a setup ends with
Endings == {"created", "cancelled", "timeout", "error", "toomany"}

\* the setup of guild g ends in this step
SetupEnds(g) ==
    wizard[g].notice \notin Endings /\ wizard'[g].notice \in Endings

C39_SlotFreeAfterEnd ==
    [][\A g \in Guilds :
        /\ SetupEnds(g) => wizard'[g].pc = "idle" /\ ~ Busy(g)'
        /\ (wizard[g].notice \in Endings /\ wizard'[g] # wizard[g])
               => wizard'[g].pc = "check" /\ wizard'[g].notice = "none"]_vars

\* the setup of guild g2 has ended with its event created and a later
\* `event create` of g2 is let run, while a setup runs in guild g1
C39_Witness ==
    /\ wizard["g2"].pc = "check"
    /\ IdOrder[Len(IdOrder)] \in DOMAIN store
    /\ wizard["g1"].pc = "basics"
    /\ DOMAIN store = {IdOrder[Len(IdOrder)]}

(***************************************************************************)
(* C40.  The row a setup inserts has no permitted roles only when the      *)
(* operator pressed Skip or the guild has more than 25 roles to select     *)
(* from, so that the step was left out; otherwise its permitted roles are  *)
(* the role ids of the last selection, between 1 and 5 of them.            *)
(***************************************************************************)
\* the setup of guild g takes the step of its INSERT
Inserts(g) == wizard[g].pc = "insert" /\ wizard'[g].pc = "refresh"

C40_UnrestrictedOnlyBySkip ==
    [][\A g \in Guilds :
        LET ses == wizard[g]
            permitted == store'[ses.entry_id].permitted_roles
        IN  Inserts(g)
            => IF ses.skipping \/ ses.role_options > 25
               THEN permitted = None
               ELSE /\ ses.data # None
                    /\ permitted = {value.int : value \in UNION ses.data}
                    /\ Cardinality(permitted) >= 1
                    /\ Cardinality(permitted) <= 5]_vars

\* an event of a guild with 6 roles is stored with the 5 roles selected
C40_Witness ==
    \E e \in DOMAIN store :
        /\ store[e].permitted_roles = 1 .. 5
        /\ wizard[GuildOf(e)].role_options = 6
        /\ ~ wizard[GuildOf(e)].skipping

====
